---- MODULE Spec2Model ----
(***************************************************************************)
(* A model of datastore_mongodb_stub.py: the key codec (_Key), the value   *)
(* codec (_Document), the query translator and result cursor               *)
(* (_IteratorCursor) and the store (MongoDatastore).                       *)
(*                                                                         *)
(* Strings are sequences of one-character strings, so that concatenation,  *)
(* split("-") and int() are computed and not assumed.                      *)
(***************************************************************************)
EXTENDS Integers, Sequences, FiniteSets, TLC

VARIABLES
    db,        \* the MongoDB database: the documents, in insertion order
    lastPut,   \* history: per datastore key, the entity last put and not deleted since
    ret,       \* the outcome of the last store operation
    schemaColl,  \* the persisted _schema collection: collection name -> record
    localSchema, \* MongoSchemaManager._local_schema, the cache of it
    cur,       \* the _IteratorCursor of the running query
    inp,       \* the argument of the pure function under check
    outp,      \* its result
    pc         \* the position of the caller

storeVars == <<db, lastPut, ret, schemaColl, localSchema>>

vars == <<storeVars, cur, inp, outp, pc>>

None == [none |-> TRUE]

----------------------------------------------------------------------------
(* Characters and Python's str(int), int(str) and str.split.               *)

Digits == <<"0", "1", "2", "3", "4", "5", "6", "7", "8", "9">>

IsDigit(c) == \E i \in 1..10 : Digits[i] = c

DigitVal(c) == (CHOOSE i \in 1..10 : Digits[i] = c) - 1

RECURSIVE IntToStr(_)
IntToStr(n) ==
    IF n < 10 THEN <<Digits[n + 1]>>
    ELSE IntToStr(n \div 10) \o <<Digits[(n % 10) + 1]>>

\* int(s) succeeds on a non-empty string of decimal digits
CanParseInt(s) == Len(s) > 0 /\ \A i \in 1..Len(s) : IsDigit(s[i])

RECURSIVE StrToInt(_)
StrToInt(s) ==
    IF Len(s) = 0 THEN 0
    ELSE 10 * StrToInt(SubSeq(s, 1, Len(s) - 1)) + DigitVal(s[Len(s)])

\* s.split(sep) for a one-character separator
RECURSIVE Split(_, _)
Split(s, sep) ==
    IF \A i \in 1..Len(s) : s[i] # sep THEN <<s>>
    ELSE LET i == CHOOSE j \in 1..Len(s) :
                      s[j] = sep /\ \A k \in 1..(j - 1) : s[k] # sep
         IN  <<SubSeq(s, 1, i - 1)>> \o Split(SubSeq(s, i + 1, Len(s)), sep)

----------------------------------------------------------------------------
(* _Key.  A datastore key is a sequence of path elements; an element is    *)
(* [type, has, id, name] with has one of "id", "name", "none" (has_id(),   *)
(* has_name()), id = 0 unless has = "id", name = <<>> unless has = "name". *)

IdElem(t, n) == [type |-> t, has |-> "id", id |-> n, name |-> <<>>]
NameElem(t, s) == [type |-> t, has |-> "name", id |-> 0, name |-> s]
BareElem(t) == [type |-> t, has |-> "none", id |-> 0, name |-> <<>>]

\* one token of the storage key: type + "-" + str(id), or type + "-" + name
MongoElem(e) ==
    IF e.has = "id" THEN e.type \o <<"-">> \o IntToStr(e.id)
    ELSE e.type \o <<"-">> \o e.name

\* _Key.__init__ on a protobuf reference: the storage key and the path chain;
\* the raise for an element with neither id nor name names RuntimeException,
\* which Python does not define
KeyFromPb(path) ==
    IF \E i \in 1..Len(path) : path[i].has = "none"
    THEN [err |-> "NameError", mongo_key |-> <<>>, path_chain |-> <<>>]
    ELSE [err |-> "none",
          mongo_key |-> [i \in 1..Len(path) |-> MongoElem(path[i])],
          path_chain |-> path]

\* one token decoded: type_, id_ = elem.split("-"); id_ = int(id_) if it parses
DecodeElem(tok) ==
    LET parts == Split(tok, "-")
    IN  IF CanParseInt(parts[2]) THEN IdElem(parts[1], StrToInt(parts[2]))
        ELSE NameElem(parts[1], parts[2])

\* _Key.__init__ on a storage key {'dskey': [...]}
KeyFromMongo(mk) ==
    IF \E i \in 1..Len(mk) : Len(Split(mk[i], "-")) # 2
    THEN [err |-> "ValueError", mongo_key |-> mk, path_chain |-> <<>>]
    ELSE [err |-> "none",
          mongo_key |-> mk,
          path_chain |-> [i \in 1..Len(mk) |-> DecodeElem(mk[i])]]

\* to_mongo_key: the list under 'dskey'
ToMongoKey(k) == k.mongo_key

\* to_datastore_key: Key.from_path(*path_chain), an integer giving an id and a
\* string a name
ToDatastoreKey(k) == k.path_chain

\* collection(): path_chain[0].lower()
Lower(c) ==
    CASE c = "A" -> "a"
      [] c = "B" -> "b"
      [] c = "Q" -> "q"
      [] c = "__KIND__" -> "__kind__"
      [] OTHER -> c

LowerStr(s) == [i \in 1..Len(s) |-> Lower(s[i])]

Collection(k) == LowerStr(k.path_chain[1].type)

\* kind(): path_chain[-2]
Kind(k) == k.path_chain[Len(k.path_chain)].type

\* decode_from_storage(encode_for_storage(key))
KeyRoundTrip(path) ==
    LET enc == KeyFromPb(path)
        dec == KeyFromMongo(ToMongoKey(enc))
    IN  IF enc.err # "none" THEN [err |-> enc.err, key |-> <<>>]
        ELSE IF dec.err # "none" THEN [err |-> dec.err, key |-> <<>>]
        ELSE [err |-> "none", key |-> ToDatastoreKey(dec)]

----------------------------------------------------------------------------
(* The key codec on bounded keys.                                          *)

MaxLevels == 5

KeyTypes == {<<"A">>, <<"B">>}

KeyElems ==
    {IdElem(t, n) : t \in KeyTypes, n \in {1, 12}}
    \cup {NameElem(t, s) : t \in KeyTypes, s \in {<<"x">>, <<"1">>}}
    \cup {NameElem(<<"A">>, <<"x", "-", "y">>)}

IdleStore ==
    /\ db = <<>>
    /\ lastPut = <<>>
    /\ ret = None
    /\ schemaColl = <<>>
    /\ localSchema = <<>>
    /\ cur = None

InitKey ==
    /\ IdleStore
    /\ inp = <<>>
    /\ outp = None
    /\ pc = "start"

\* the caller builds a key, one path level at a time (Key(parent=..., ...))
AddLevel ==
    /\ pc = "start"
    /\ Len(inp) < MaxLevels
    /\ \E e \in KeyElems : inp' = Append(inp, e)
    /\ UNCHANGED <<storeVars, cur, outp, pc>>

DoKeyRoundTrip ==
    /\ pc = "start"
    /\ Len(inp) >= 1
    /\ outp' = KeyRoundTrip(inp)
    /\ pc' = "done"
    /\ UNCHANGED <<storeVars, cur, inp>>

NextKey == AddLevel \/ DoKeyRoundTrip

SpecKey == InitKey /\ [][NextKey]_vars

\* C2: decoding the storage key of a valid key (1 to 5 levels, numeric or named
\* elements) gives the original key back, kinds and id-or-name preserved
C2_KeyRoundTrip == pc = "done" => (outp.err = "none" /\ outp.key = inp)

----------------------------------------------------------------------------
(* _Document: the value codec.                                             *)
(*                                                                         *)
(* A datastore value is a record [t, n, m, s, s2, s3, k, l]: t the Python  *)
(* class, n and m integers, s, s2, s3 strings, k a key path, l the         *)
(* elements of a list.  A str is a sequence of bytes and a unicode a       *)
(* sequence of characters, both written as tokens ("a", "xa4", "ue9").     *)

V(t, n, m, s, s2, s3, k, l) ==
    [t |-> t, n |-> n, m |-> m, s |-> s, s2 |-> s2, s3 |-> s3, k |-> k, l |-> l]

VNull == V("NoneType", 0, 0, <<>>, <<>>, <<>>, <<>>, <<>>)
VBool(b) == V("bool", IF b THEN 1 ELSE 0, 0, <<>>, <<>>, <<>>, <<>>, <<>>)
VInt(n) == V("int", n, 0, <<>>, <<>>, <<>>, <<>>, <<>>)
VStr(s) == V("str", 0, 0, s, <<>>, <<>>, <<>>, <<>>)
VUni(s) == V("unicode", 0, 0, s, <<>>, <<>>, <<>>, <<>>)
VText(s) == V("Text", 0, 0, s, <<>>, <<>>, <<>>, <<>>)
VBlob(s) == V("Blob", 0, 0, s, <<>>, <<>>, <<>>, <<>>)
VLocal(s) == V("EmbeddedEntity", 0, 0, s, <<>>, <<>>, <<>>, <<>>)
VBlobKey(s) == V("BlobKey", 0, 0, s, <<>>, <<>>, <<>>, <<>>)
VDate(sec, usec) == V("datetime", sec, usec, <<>>, <<>>, <<>>, <<>>, <<>>)
VGeo(lat, lon) == V("GeoPt", lat, lon, <<>>, <<>>, <<>>, <<>>, <<>>)
VKey(path) == V("Key", 0, 0, <<>>, <<>>, <<>>, path, <<>>)
VUser(email, fid, fprov) == V("User", 0, 0, email, fid, fprov, <<>>, <<>>)
VList(l) == V("list", 0, 0, <<>>, <<>>, <<>>, <<>>, l)

(* A stored (BSON) value is a record [form, t, n, m, s, s2, s3, dskey,     *)
(* exists, l]: form is "null", "bool", "int", "str", "unicode", "list" or  *)
(* "dict"; of a dict {"t": ..., "v": ...} t is the type tag and the other  *)
(* fields hold v; exists tells that the dict also holds a "$exists" key.   *)

S(form, t, n, m, s, s2, s3, dskey, l) ==
    [form |-> form, t |-> t, n |-> n, m |-> m, s |-> s, s2 |-> s2, s3 |-> s3,
     dskey |-> dskey, exists |-> FALSE, l |-> l]

SNull == S("null", "", 0, 0, <<>>, <<>>, <<>>, <<>>, <<>>)
SBool(n) == S("bool", "", n, 0, <<>>, <<>>, <<>>, <<>>, <<>>)
SInt(n) == S("int", "", n, 0, <<>>, <<>>, <<>>, <<>>, <<>>)
SStr(s) == S("str", "", 0, 0, s, <<>>, <<>>, <<>>, <<>>)
SUni(s) == S("unicode", "", 0, 0, s, <<>>, <<>>, <<>>, <<>>)
SList(l) == S("list", "", 0, 0, <<>>, <<>>, <<>>, <<>>, l)
SDict(t, n, m, s, s2, s3, dskey) == S("dict", t, n, m, s, s2, s3, dskey, <<>>)

\* ord() of a byte
Ord(c) ==
    CASE c = "a" -> 97
      [] c = "b" -> 98
      [] c = "$" -> 36
      [] c = "xa4" -> 164
      [] c = "xc3" -> 195
      [] c = "xa9" -> 169
      [] OTHER -> 63

IsAscii(s) == \A i \in 1..Len(s) : Ord(s[i]) < 128

\* s.decode('utf-8') succeeds: ASCII bytes, and the two-byte sequence c3 a9
RECURSIVE IsValidUtf8(_)
IsValidUtf8(s) ==
    IF Len(s) = 0 THEN TRUE
    ELSE IF Ord(s[1]) < 128 THEN IsValidUtf8(Tail(s))
    ELSE IF Len(s) >= 2 /\ s[1] = "xc3" /\ s[2] = "xa9"
         THEN IsValidUtf8(SubSeq(s, 3, Len(s)))
    ELSE FALSE

\* unicode.encode('utf-8')
RECURSIVE Utf8Encode(_)
Utf8Encode(u) ==
    IF Len(u) = 0 THEN <<>>
    ELSE (IF u[1] = "ue9" THEN <<"xc3", "xa9">> ELSE <<u[1]>>)
         \o Utf8Encode(Tail(u))

\* the driver's decoding of a stored string (valid UTF-8) to unicode
RECURSIVE Utf8Decode(_)
Utf8Decode(s) ==
    IF Len(s) = 0 THEN <<>>
    ELSE IF Len(s) >= 2 /\ s[1] = "xc3" /\ s[2] = "xa9"
         THEN <<"ue9">> \o Utf8Decode(SubSeq(s, 3, Len(s)))
    ELSE <<s[1]>> \o Utf8Decode(Tail(s))

Utf8Marker == <<"$", "U", "T", "F", "8", "$">>

\* "~".join([str(ord(l)) for l in s])
RECURSIVE JoinOrds(_)
JoinOrds(s) ==
    IF Len(s) = 0 THEN <<>>
    ELSE IF Len(s) = 1 THEN IntToStr(Ord(s[1]))
    ELSE IntToStr(Ord(s[1])) \o <<"~">> \o JoinOrds(Tail(s))

\* to_utf8 of _encode_value, on a str
ToUtf8(s) == IF IsValidUtf8(s) THEN s ELSE Utf8Marker \o JoinOrds(s)

StartsWith(s, prefix) ==
    Len(s) >= Len(prefix) /\ SubSeq(s, 1, Len(prefix)) = prefix

\* the six digits of %f
Pad6(n) ==
    LET d == IntToStr(n)
    IN  [i \in 1..(6 - Len(d)) |-> "0"] \o d

\* datetime.isoformat(): the fraction is written only when it is not zero
IsoFormat(sec, usec) ==
    IF usec = 0 THEN IntToStr(sec)
    ELSE IntToStr(sec) \o <<".">> \o Pad6(usec)

\* parse_isoformat: first the format with .%f, then the one without
ParseIsoFormat(str) ==
    LET parts == Split(str, ".")
    IN  IF Len(parts) = 2 /\ CanParseInt(parts[1]) /\ CanParseInt(parts[2])
        THEN [sec |-> StrToInt(parts[1]), usec |-> StrToInt(parts[2])]
        ELSE [sec |-> StrToInt(str), usec |-> 0]

\* _encode_value on one value that is not a list
EncodeScalar(v) ==
    CASE v.t = "datetime" ->
             SDict("datetime", 0, 0, IsoFormat(v.n, v.m), <<>>, <<>>, <<>>)
      [] v.t = "Blob" -> SDict("blob", 0, 0, v.s, <<>>, <<>>, <<>>)
      [] v.t = "GeoPt" -> SDict("geo", v.m, v.n, <<>>, <<>>, <<>>, <<>>)
      [] v.t = "Key" ->
             SDict("key", 0, 0, <<>>, <<>>, <<>>, ToMongoKey(KeyFromPb(v.k)))
      [] v.t = "BlobKey" -> SDict("blobkey", 0, 0, v.s, <<>>, <<>>, <<>>)
      [] v.t = "Text" -> SDict("text", 0, 0, v.s, <<>>, <<>>, <<>>)
      [] v.t = "EmbeddedEntity" -> SDict("local", 0, 0, v.s, <<>>, <<>>, <<>>)
      [] v.t = "User" -> SDict("user", 0, 0, v.s, v.s2, v.s3, <<>>)
      [] v.t = "unicode" -> SStr(Utf8Encode(v.s))
      [] v.t = "str" -> SStr(ToUtf8(v.s))
      [] v.t = "int" -> SInt(v.n)
      [] v.t = "bool" -> SBool(v.n)
      [] OTHER -> SNull

\* _encode_value
EncodeValue(v) ==
    IF v.t = "list" THEN SList([i \in 1..Len(v.l) |-> EncodeScalar(v.l[i])])
    ELSE EncodeScalar(v)

\* what the driver hands back for a value it was given: a str comes back as
\* unicode
StoreScalar(sv) == IF sv.form = "str" THEN SUni(Utf8Decode(sv.s)) ELSE sv

ThroughStorage(sv) ==
    IF sv.form = "list" THEN SList([i \in 1..Len(sv.l) |-> StoreScalar(sv.l[i])])
    ELSE StoreScalar(sv)

Ok(v) == [err |-> "none", val |-> v]
Err(e) == [err |-> e, val |-> VNull]

\* DECODER[val["t"]](self, val["v"])
DecodeDict(sv) ==
    CASE sv.t = "datetime" ->
             LET d == ParseIsoFormat(sv.s) IN Ok(VDate(d.sec, d.usec))
      [] sv.t = "geo" -> Ok(VGeo(sv.m, sv.n))
      [] sv.t = "key" ->
             LET k == KeyFromMongo(sv.dskey)
             IN  IF k.err # "none" THEN Err(k.err)
                 ELSE Ok(VKey(ToDatastoreKey(k)))
      [] sv.t = "blobkey" -> Ok(VBlobKey(sv.s))
      [] sv.t = "blob" -> Ok(VBlob(sv.s))
      [] sv.t = "text" -> Ok(VText(sv.s))
      [] sv.t = "local" -> Ok(VLocal(sv.s))
      [] sv.t = "user" -> Ok(VUser(sv.s, sv.s2, sv.s3))
      [] OTHER -> Err("KeyError")

\* _decode_value on one value that is not a list: from_utf8 reads the name pp,
\* which nothing binds
DecodeScalar(sv) ==
    CASE sv.form = "dict" -> DecodeDict(sv)
      [] sv.form = "str" ->
             IF StartsWith(sv.s, Utf8Marker) THEN Err("NameError")
             ELSE Ok(VStr(sv.s))
      [] sv.form = "unicode" -> Ok(VUni(sv.s))
      [] sv.form = "int" -> Ok(VInt(sv.n))
      [] sv.form = "bool" -> Ok(VBool(sv.n = 1))
      [] OTHER -> Ok(VNull)

\* _decode_value
DecodeValue(sv) ==
    IF sv.form = "list"
    THEN IF \E i \in 1..Len(sv.l) : DecodeScalar(sv.l[i]).err # "none"
         THEN Err(DecodeScalar(sv.l[CHOOSE i \in 1..Len(sv.l) :
                      /\ DecodeScalar(sv.l[i]).err # "none"
                      /\ \A j \in 1..(i - 1) :
                             DecodeScalar(sv.l[j]).err = "none"]).err)
         ELSE Ok(VList([i \in 1..Len(sv.l) |-> DecodeScalar(sv.l[i]).val]))
    ELSE DecodeScalar(sv)

\* Python's == on two values that are not lists: a str equals a unicode only
\* when it is ASCII and holds the same characters
ScalarEq(a, b) ==
    IF a.t = "str" /\ b.t = "unicode" THEN IsAscii(a.s) /\ a.s = b.s
    ELSE IF a.t = "unicode" /\ b.t = "str" THEN IsAscii(b.s) /\ a.s = b.s
    ELSE a = b

\* Python's == on two values
PyEq(a, b) ==
    IF a.t = "list" /\ b.t = "list"
    THEN /\ Len(a.l) = Len(b.l)
         /\ \A i \in 1..Len(a.l) : ScalarEq(a.l[i], b.l[i])
    ELSE ScalarEq(a, b)

----------------------------------------------------------------------------
(* The value codec on bounded values.                                      *)

MaxList == 2

Scalars ==
    {VNull, VBool(TRUE), VBool(FALSE), VInt(0), VInt(7),
     VStr(<<"a", "b">>), VStr(<<"xa4">>), VStr(<<"a", "xa4">>),
     VUni(<<"a">>), VUni(<<"ue9">>),
     VText(<<"a", "ue9">>), VBlob(<<"xa4", "a">>),
     VDate(3, 0), VDate(3, 5), VGeo(1, 2),
     VKey(<<IdElem(<<"A">>, 1)>>),
     VKey(<<IdElem(<<"A">>, 1), NameElem(<<"B">>, <<"x">>)>>),
     VLocal(<<"xa4">>), VBlobKey(<<"a", "b">>),
     VUser(<<"a">>, <<>>, <<>>), VUser(<<"a">>, <<"b">>, <<"a">>)}

InitValue ==
    /\ IdleStore
    /\ inp \in {[v |-> v, stored |-> st] : v \in Scalars, st \in BOOLEAN}
    /\ outp = None
    /\ pc = "start"

\* the caller makes the value a repeated one
MakeList ==
    /\ pc = "start"
    /\ inp.v.t # "list"
    /\ inp' = [inp EXCEPT !.v = VList(<<inp.v>>)]
    /\ UNCHANGED <<storeVars, cur, outp, pc>>

ExtendList ==
    /\ pc = "start"
    /\ inp.v.t = "list"
    /\ Len(inp.v.l) < MaxList
    /\ \E e \in Scalars : inp' = [inp EXCEPT !.v = VList(Append(inp.v.l, e))]
    /\ UNCHANGED <<storeVars, cur, outp, pc>>

\* _decode_value(_encode_value(v)), directly or on what the storage returns
DoValueRoundTrip ==
    /\ pc = "start"
    /\ outp' = DecodeValue(IF inp.stored THEN ThroughStorage(EncodeValue(inp.v))
                           ELSE EncodeValue(inp.v))
    /\ pc' = "done"
    /\ UNCHANGED <<storeVars, cur, inp>>

NextValue == MakeList \/ ExtendList \/ DoValueRoundTrip

SpecValue == InitValue /\ [][NextValue]_vars

\* C3: every supported value, and a list of such values, decodes from its
\* encoding to a value equal to it; a byte string that is not valid UTF-8 is
\* escaped and comes back as the original bytes
C3_ValueRoundTrip ==
    pc = "done" => (outp.err = "none" /\ PyEq(outp.val, inp.v))

----------------------------------------------------------------------------
(* _IteratorCursor: the translation of a query.                            *)
(*                                                                         *)
(* A property name is a sequence of tokens (<<"a">>, <<"s", ".", "j">>).   *)
(* A query filter is [prop, op, val], op as in datastore_pb.Query_Filter.  *)
(* The storage filter is [top, hasAnd, and]: top the dict without its      *)
(* "$and" key, a function from names to constraints; and the list under    *)
(* "$and", of [prop, spec] pairs.  A constraint is [kind, op, val, exists, *)
(* all]: kind "eq" (val itself), "op" ({op: val}), "exists"                *)
(* ({"$exists": True}), "nin" ({"$nin": ["blob", "text", "local"]}) or     *)
(* "all" ({"$all": all}); exists tells that an "op" or "all" dict also     *)
(* holds "$exists": True.                                                  *)

STRUCTURED_PROPERTY_DELIMITER == "#!#"

\* name.replace(".", STRUCTURED_PROPERTY_DELIMITER)
ReplaceDots(name) ==
    [i \in 1..Len(name) |->
        IF name[i] = "." THEN STRUCTURED_PROPERTY_DELIMITER ELSE name[i]]

KeyProp == <<"__key__">>

IdDskey == <<"_id", ".", "dskey">>

\* the field a filter or an order is translated to
MongoProp(name) == ReplaceDots(IF name = KeyProp THEN IdDskey ELSE name)

\* _DATASTORE_FILTER_MAP
DatastoreFilterMap(op) ==
    CASE op = "LESS_THAN" -> "$lt"
      [] op = "LESS_THAN_OR_EQUAL" -> "$lte"
      [] op = "GREATER_THAN" -> "$gt"
      [] op = "GREATER_THAN_OR_EQUAL" -> "$gte"

EqSpec(val) ==
    [kind |-> "eq", op |-> "", val |-> val, exists |-> FALSE, all |-> <<>>]
OpSpec(op, val) ==
    [kind |-> "op", op |-> op, val |-> val, exists |-> FALSE, all |-> <<>>]
ExistsSpec ==
    [kind |-> "exists", op |-> "", val |-> SNull, exists |-> TRUE, all |-> <<>>]
NinSpec ==
    [kind |-> "nin", op |-> "", val |-> SNull, exists |-> FALSE, all |-> <<>>]
AllSpec(k) ==
    [kind |-> "all", op |-> "", val |-> SNull, exists |-> FALSE, all |-> k]

\* the constraint of one query filter
FilterSpec(f) ==
    IF f.op = "EQUAL" THEN EqSpec(EncodeValue(f.val))
    ELSE OpSpec(DatastoreFilterMap(f.op), EncodeValue(f.val))

NoFilters == [top |-> <<>>, hasAnd |-> FALSE, and |-> <<>>]

\* d[k] = v on a dict
DictSet(d, k, v) == [x \in (DOMAIN d) \cup {k} |-> IF x = k THEN v ELSE d[x]]

\* del d[k]
DictDel(d, k) == [x \in (DOMAIN d) \ {k} |-> d[x]]

\* the body of the loop of _get_filters
AddFilterSpec(F, f) ==
    LET prop == MongoProp(f.prop)
        val == FilterSpec(f)
    IN  IF prop \in DOMAIN F.top
        THEN [top |-> DictDel(F.top, prop),
              hasAnd |-> TRUE,
              and |-> <<[prop |-> prop, spec |-> F.top[prop]],
                        [prop |-> prop, spec |-> val]>>]
        ELSE IF F.hasAnd
        THEN [F EXCEPT !.and = Append(F.and, [prop |-> prop, spec |-> val])]
        ELSE [F EXCEPT !.top = DictSet(F.top, prop, val)]

\* _get_filters
RECURSIVE GetFilters(_)
GetFilters(flist) ==
    IF Len(flist) = 0 THEN NoFilters
    ELSE AddFilterSpec(GetFilters(SubSeq(flist, 1, Len(flist) - 1)),
                       flist[Len(flist)])

\* the storage filter constrains prop by spec
HasConstraint(F, prop, spec) ==
    \/ prop \in DOMAIN F.top /\ F.top[prop] = spec
    \/ \E j \in 1..Len(F.and) : F.and[j] = [prop |-> prop, spec |-> spec]

----------------------------------------------------------------------------
(* _get_filters on bounded filter lists.                                   *)

MaxFilters == 4

FilterInputs ==
    {[prop |-> p, op |-> o, val |-> VInt(n)] :
        p \in {<<"a">>, <<"b">>},
        o \in {"EQUAL", "LESS_THAN", "GREATER_THAN_OR_EQUAL"},
        n \in {1, 3}}

InitFilters ==
    /\ IdleStore
    /\ inp = <<>>
    /\ outp = None
    /\ pc = "start"

\* the caller adds a filter to the query
AddFilter ==
    /\ pc = "start"
    /\ Len(inp) < MaxFilters
    /\ \E f \in FilterInputs : inp' = Append(inp, f)
    /\ UNCHANGED <<storeVars, cur, outp, pc>>

DoGetFilters ==
    /\ pc = "start"
    /\ outp' = GetFilters(inp)
    /\ pc' = "done"
    /\ UNCHANGED <<storeVars, cur, inp>>

NextFilters == AddFilter \/ DoGetFilters

SpecFilters == InitFilters /\ [][NextFilters]_vars

\* C5: every filter of the query, whatever the order and the number of
\* properties, is a constraint of the storage filter _get_filters builds
C5_NoFilterDropped ==
    pc = "done" =>
        \A i \in 1..Len(inp) :
            HasConstraint(outp, MongoProp(inp[i].prop), FilterSpec(inp[i]))

----------------------------------------------------------------------------
(* MongoDatastore: put, get and delete.                                    *)
(*                                                                         *)
(* An entity is [key, props]: a key path and a function from property      *)
(* names to values.  A stored document is [_id, coll, props, more]: the    *)
(* list under _id.dskey, the collection that holds it, and its fields.     *)
(* more is 0 but for a run: a document that stands for itself and more     *)
(* further ones, of the same fields and of keys whose last id counts up    *)
(* from its own.  A run comes from a put of many entities alike, and is    *)
(* met only by puts of other keys and by queries that do not constrain     *)
(* the key, which do not tell its documents apart; lastPut records the     *)
(* entities put one by one.  The indexes put ensures hold no data of       *)
(* their own and are left out.                                             *)

\* v.__class__.__name__, and for a list the class of its first element too
TypeName(v) == IF v.t = "list" THEN <<"list", v.l[1].t>> ELSE <<v.t>>

\* the fields of the document of an entity (_parse_pb)
MongoProps(props) ==
    [m \in {ReplaceDots(n) : n \in DOMAIN props} |->
        EncodeValue(props[CHOOSE n \in DOMAIN props : ReplaceDots(n) = m])]

\* _Document.get_schema
GetSchema(k, props) ==
    [_id |-> Collection(k),
     _kind |-> Kind(k),
     props |-> [m \in {ReplaceDots(n) : n \in DOMAIN props} |->
                   TypeName(props[CHOOSE n \in DOMAIN props : ReplaceDots(n) = m])]]

\* update_if_changed were it to save whatever the cache holds; C14 tells it
\* from UpdateIfChanged
UpdateAlways(sch, schema) ==
    [coll |-> DictSet(sch.coll, schema._id, schema),
     local |-> DictSet(sch.local, schema._id, schema),
     saves |-> sch.saves + 1]

\* update_if_changed were it to keep the record in the cache alone; C22 tells
\* it from UpdateIfChanged
UpdateCacheOnly(sch, schema) ==
    [sch EXCEPT !.local = DictSet(sch.local, schema._id, schema)]

\* MongoSchemaManager.update_if_changed, on [coll, local, saves]: the
\* persisted records, the cache and the number of calls of save
UpdateIfChanged(sch, schema) ==
    LET coll_name == schema._id
    IN  IF coll_name \notin DOMAIN sch.local
        THEN [coll |-> DictSet(sch.coll, coll_name, schema),
              local |-> DictSet(sch.local, coll_name, schema),
              saves |-> sch.saves + 1]
        ELSE IF sch.local[coll_name] # schema
        THEN [coll |-> DictSet(sch.coll, coll_name, schema),
              local |-> DictSet(sch.local, coll_name, schema),
              saves |-> sch.saves + 1]
        ELSE sch

\* collection.save(doc): replace the document with this _id, or insert
Save(docs, doc) ==
    IF \E i \in 1..Len(docs) : docs[i]._id = doc._id /\ docs[i].coll = doc.coll
    THEN [i \in 1..Len(docs) |->
             IF docs[i]._id = doc._id /\ docs[i].coll = doc.coll
             THEN doc ELSE docs[i]]
    ELSE Append(docs, doc)

\* a in list
InSeq(a, list) == \E i \in 1..Len(list) : list[i] = a

\* {'_id.dskey': {'$all': k}}: every token of k is in the document's list
MatchesAll(doc, k) == \A i \in 1..Len(k) : InSeq(k[i], doc._id)

RECURSIVE SelectSeq2(_, _, _)
SelectSeq2(docs, coll, k) ==
    IF Len(docs) = 0 THEN <<>>
    ELSE (IF docs[1].coll = coll /\ MatchesAll(docs[1], k) THEN <<>>
          ELSE <<docs[1]>>) \o SelectSeq2(Tail(docs), coll, k)

\* coll.remove({'_id.dskey': {'$all': k}}): what is left
Remove(docs, coll, k) == SelectSeq2(docs, coll, k)

\* the loop of put were it to pass over an entity whose key it cannot take;
\* C18 tells it from PutOne
PutOnePassing(st, e) == st

\* one turn of the loop of put, on [db, sch, err, keys]
PutOne(st, e) ==
    LET k == KeyFromPb(e.key)
    IN  IF st.err # "none" THEN st
        ELSE IF k.err # "none" THEN [st EXCEPT !.err = k.err]
        ELSE IF Len(k.path_chain) = 0 THEN [st EXCEPT !.err = "IndexError"]
        ELSE [db |-> Save(st.db, [_id |-> ToMongoKey(k),
                                  coll |-> Collection(k),
                                  props |-> MongoProps(e.props),
                                  more |-> 0]),
              sch |-> UpdateIfChanged(st.sch, GetSchema(k, e.props)),
              err |-> "none",
              keys |-> Append(st.keys, ToDatastoreKey(k))]

\* MongoDatastore.put
RECURSIVE PutAll(_, _)
PutAll(st, entities) ==
    IF Len(entities) = 0 THEN st
    ELSE PutAll(PutOne(st, entities[1]), Tail(entities))

\* MongoDatastore.get: find() gives a cursor object, which is never false, and
\* the line after reads the name d, which nothing binds
GetResult(docs, key) ==
    LET k == KeyFromPb(key)
    IN  IF k.err # "none" THEN [err |-> k.err, val |-> None]
        ELSE IF Len(k.path_chain) = 0 THEN [err |-> "IndexError", val |-> None]
        ELSE [err |-> "NameError", val |-> None]

\* MongoDatastore.delete
DeleteResult(docs, key) ==
    LET k == KeyFromPb(key)
    IN  IF k.err # "none" THEN [err |-> k.err, db |-> docs]
        ELSE IF Len(k.path_chain) = 0 THEN [err |-> "IndexError", db |-> docs]
        ELSE [err |-> "none", db |-> Remove(docs, Collection(k), k.mongo_key)]

\* the entities of a batch that put has stored: those before the failing one
Stored(entities, nkeys) == SubSeq(entities, 1, nkeys)

RECURSIVE Record(_, _)
Record(last, entities) ==
    IF Len(entities) = 0 THEN last
    ELSE Record(DictSet(last, entities[1].key, entities[1].props), Tail(entities))

----------------------------------------------------------------------------
(* The store under puts, gets and deletes of a few entities.               *)

MaxBatch == 2

StoreKeys ==
    {<<IdElem(<<"A">>, 1)>>,
     <<IdElem(<<"A">>, 1), IdElem(<<"B">>, 2)>>,
     <<IdElem(<<"B">>, 2)>>}

StoreProps ==
    {[n \in {<<"a">>} |-> VInt(1)],
     [n \in {<<"b">>} |-> VUni(<<"a">>)]}

StoreEntities == {[key |-> k, props |-> p] : k \in StoreKeys, p \in StoreProps}

InitStore ==
    /\ IdleStore
    /\ inp = None
    /\ outp = None
    /\ pc = "idle"

Put(entities) ==
    LET st == PutAll([db |-> db,
                      sch |-> [coll |-> schemaColl, local |-> localSchema,
                               saves |-> 0],
                      err |-> "none",
                      keys |-> <<>>], entities)
    IN  /\ db' = st.db
        /\ schemaColl' = st.sch.coll
        /\ localSchema' = st.sch.local
        /\ lastPut' = Record(lastPut, Stored(entities, Len(st.keys)))
        /\ ret' = [op |-> "put", err |-> st.err, arg |-> <<>>,
                   val |-> [keys |-> st.keys]]
        /\ UNCHANGED <<cur, inp, outp, pc>>

Get(key) ==
    LET r == GetResult(db, key)
    IN  /\ ret' = [op |-> "get", err |-> r.err, arg |-> key, val |-> r.val]
        /\ UNCHANGED <<db, lastPut, schemaColl, localSchema, cur, inp, outp, pc>>

Delete(key) ==
    LET r == DeleteResult(db, key)
    IN  /\ db' = r.db
        /\ lastPut' = IF r.err = "none" THEN DictDel(lastPut, key) ELSE lastPut
        /\ ret' = [op |-> "delete", err |-> r.err, arg |-> key, val |-> None]
        /\ UNCHANGED <<schemaColl, localSchema, cur, inp, outp, pc>>

PutSome ==
    \/ \E e \in StoreEntities : Put(<<e>>)
    \/ \E e1 \in StoreEntities, e2 \in StoreEntities :
           MaxBatch >= 2 /\ e1.key # e2.key /\ Put(<<e1, e2>>)

GetSome == \E k \in StoreKeys : Get(k)

DeleteSome == \E k \in StoreKeys : Delete(k)

NextStore == PutSome \/ GetSome \/ DeleteSome

SpecStore == InitStore /\ [][NextStore]_vars

\* what a map from key to entity holds under key
Lookup(key) == IF key \in DOMAIN lastPut THEN lastPut[key] ELSE None

\* C1: get(k) returns the entity most recently put under k and not deleted
\* since, and None when k was never put or was deleted after its last put
C1_StoreIsMap ==
    ret # None /\ ret.op = "get" =>
        (ret.err = "none" /\ ret.val = Lookup(ret.arg))

----------------------------------------------------------------------------
(* _IteratorCursor.__init__: the rest of the translation, and the find.    *)
(*                                                                         *)
(* A query is [kind, filters, orders, hasAncestor, ancestor, props,        *)
(* hasOffset, offset, hasLimit, limit]; an order is [prop, dir] and props  *)
(* the list of projected property names.                                   *)

\* _ancestor_query
AncestorQuery(F, q) ==
    IF q.hasAncestor
    THEN [F EXCEPT !.top = DictSet(F.top, IdDskey,
                                   AllSpec(KeyFromPb(q.ancestor).mongo_key))]
    ELSE F

\* self._filters[key]["$exists"] = True: a dict takes the new key, any other
\* value raises TypeError, which is passed over
SetExists(spec) ==
    IF spec.kind = "eq"
    THEN IF spec.val.form = "dict"
         THEN [spec EXCEPT !.val = [spec.val EXCEPT !.exists = TRUE]]
         ELSE spec
    ELSE [spec EXCEPT !.exists = TRUE]

\* "%s.t" % key
TypeForKey(key) == key \o <<".", "t">>

\* the body of the loop of _ordering, on the storage filter
AddOrderFilters(F, order) ==
    LET key == MongoProp(order.prop)
        top1 == IF key \in DOMAIN F.top
                THEN DictSet(F.top, key, SetExists(F.top[key]))
                ELSE DictSet(F.top, key, ExistsSpec)
    IN  [F EXCEPT !.top = DictSet(top1, TypeForKey(key), NinSpec)]

RECURSIVE OrderFilters(_, _)
OrderFilters(F, orders) ==
    IF Len(orders) = 0 THEN F
    ELSE OrderFilters(AddOrderFilters(F, orders[1]), Tail(orders))

\* _ordering: the sort specification
Ordering(q) ==
    [i \in 1..Len(q.orders) |->
        [key |-> MongoProp(q.orders[i].prop), dir |-> q.orders[i].dir]]

\* _projection: the fields asked of find
Projection(q) == {ReplaceDots(q.props[i]) : i \in 1..Len(q.props)}

\* the storage filter of a query
QueryFilters(q) == OrderFilters(AncestorQuery(GetFilters(q.filters), q), q.orders)

(* find(filters): which documents a storage filter selects.                *)

Unorderable == {"blob", "text", "local"}

HasField(doc, prop) == prop = IdDskey \/ prop \in DOMAIN doc.props

\* the values a constraint on a field is tried on: the value, or each element
\* of an array
Candidates(v) == IF v.form = "list" THEN {v.l[i] : i \in 1..Len(v.l)} ELSE {v}

\* $lt, $lte, $gt, $gte compare values of one type; the numbers are the ones
\* the queries here compare
OpHolds(x, op, y) ==
    /\ x.form = "int"
    /\ y.form = "int"
    /\ CASE op = "$lt" -> x.n < y.n
         [] op = "$lte" -> x.n <= y.n
         [] op = "$gt" -> x.n > y.n
         [] op = "$gte" -> x.n >= y.n
         [] OTHER -> FALSE

\* the constraint on the tags were it to exclude nothing; C11 tells it from
\* NinMatches
NinMatchesAll(doc, prop) == TRUE

\* {"a.t": {"$nin": [...]}}: no tag reached by the path a.t is in the list
NinMatches(doc, prop) ==
    LET base == SubSeq(prop, 1, Len(prop) - 2)
    IN  IF base \notin DOMAIN doc.props THEN TRUE
        ELSE \A x \in Candidates(doc.props[base]) :
                 x.form = "dict" => x.t \notin Unorderable

\* an equality against a dict that also holds "$exists" selects nothing: the
\* storage compares with the whole dict, which no stored value equals (a
\* later storage rejects such a query instead)
EqMatches(v, val) ==
    /\ ~val.exists
    /\ (v = val \/ val \in Candidates(v))

MatchSpec(doc, prop, spec) ==
    CASE spec.kind = "all" -> prop = IdDskey /\ MatchesAll(doc, spec.all)
      [] spec.kind = "nin" -> NinMatches(doc, prop)
      [] spec.kind = "exists" -> HasField(doc, prop)
      [] spec.kind = "eq" ->
             prop \in DOMAIN doc.props /\ EqMatches(doc.props[prop], spec.val)
      [] spec.kind = "op" ->
             /\ prop \in DOMAIN doc.props
             /\ \E x \in Candidates(doc.props[prop]) : OpHolds(x, spec.op, spec.val)

Matches(doc, F) ==
    /\ \A p \in DOMAIN F.top : MatchSpec(doc, p, F.top[p])
    /\ \A j \in 1..Len(F.and) : MatchSpec(doc, F.and[j].prop, F.and[j].spec)

\* db[coll].find(filters)
Find(docs, coll, F) ==
    SelectSeq(docs, LAMBDA d : d.coll = coll /\ Matches(d, F))

(* cursor.sort(order).                                                     *)

ASCENDING == 1
DESCENDING == -1

\* the place of a value in the order of the storage: null, numbers, strings,
\* embedded documents
ValueRank(x) ==
    CASE x.form = "null" -> -1
      [] x.form = "int" -> x.n
      [] x.form = "str" -> 500
      [] x.form = "unicode" -> 500
      [] OTHER -> 1000

SetMin(R) == CHOOSE r \in R : \A o \in R : r <= o
SetMax(R) == CHOOSE r \in R : \A o \in R : r >= o

\* an array sorts by its least element ascending, by its greatest descending
SortRank(doc, key, dir) ==
    IF key \notin DOMAIN doc.props THEN -1
    ELSE LET R == {ValueRank(x) : x \in Candidates(doc.props[key])}
         IN  IF dir = ASCENDING THEN SetMin(R) ELSE SetMax(R)

\* d1 sorts strictly before d2
RECURSIVE Before(_, _, _)
Before(d1, d2, order) ==
    IF Len(order) = 0 THEN FALSE
    ELSE LET r1 == SortRank(d1, order[1].key, order[1].dir)
             r2 == SortRank(d2, order[1].key, order[1].dir)
         IN  IF r1 = r2 THEN Before(d1, d2, Tail(order))
             ELSE IF order[1].dir = ASCENDING THEN r1 < r2 ELSE r1 > r2

\* d put in its place in a sorted list, after the documents it ties with
RECURSIVE Insert(_, _, _)
Insert(sorted, d, order) ==
    IF Len(sorted) = 0 THEN <<d>>
    ELSE IF Before(d, sorted[1], order) THEN <<d>> \o sorted
    ELSE <<sorted[1]>> \o Insert(Tail(sorted), d, order)

RECURSIVE Sort(_, _)
Sort(docs, order) ==
    IF Len(docs) = 0 THEN <<>>
    ELSE Insert(Sort(SubSeq(docs, 1, Len(docs) - 1), order), docs[Len(docs)], order)

----------------------------------------------------------------------------
(* _IteratorCursor: the cursor and its next().                             *)
(*                                                                         *)
(* The cursor is [query, filters, offset, limit, skipped_results, results, *)
(* splitted, warned, out, status]: results the documents the storage       *)
(* cursor has yet to hand over, splitted the list _projection_splitted,    *)
(* warned the number of calls of warnings.warn, out what the calls of      *)
(* next() have returned or raised so far, status "stop" once next() has    *)
(* raised StopIteration.  What next() returns or raises is      *)
(* [kind, key, props, err], kind "dummy", "entity" or "error".             *)

OffsetCap == 10000
CountOffset == 2147483647

\* offset(o) were every offset reset; C7 tells it from SkipCount
SkipCountReset(o) == 0

\* offset(o): the number handed to cursor.skip
SkipCount(o) == IF o >= CountOffset THEN 0 ELSE o

\* the key n ids after the key mk (of a run, whose last element has an id)
KeyAfter(mk, n) ==
    LET path == KeyFromMongo(mk).path_chain
        last == path[Len(path)]
    IN  ToMongoKey(KeyFromPb(SubSeq(path, 1, Len(path) - 1)
                             \o <<IdElem(last.type, last.id + n)>>))

\* a run without its first n documents, n at most d.more
Advance(d, n) == [d EXCEPT !._id = KeyAfter(d._id, n), !.more = d.more - n]

\* the number of documents of a list of runs
RECURSIVE Count(_)
Count(docs) ==
    IF Len(docs) = 0 THEN 0 ELSE 1 + docs[1].more + Count(Tail(docs))

\* cursor.skip(n)
RECURSIVE Skip(_, _)
Skip(docs, n) ==
    IF n = 0 \/ Len(docs) = 0 THEN docs
    ELSE IF n > docs[1].more THEN Skip(Tail(docs), n - 1 - docs[1].more)
    ELSE <<Advance(docs[1], n)>> \o Tail(docs)

\* the first l documents, l at least 1
RECURSIVE Take(_, _)
Take(docs, l) ==
    IF Len(docs) = 0 THEN <<>>
    ELSE IF l > docs[1].more + 1
    THEN <<docs[1]>> \o Take(Tail(docs), l - 1 - docs[1].more)
    ELSE <<[docs[1] EXCEPT !.more = l - 1]>>

\* cursor.limit(l): the driver takes 0 for no limit
Limit(docs, l) == IF l = 0 THEN docs ELSE Take(docs, l)

\* find(filters, proj): the document as the cursor hands it over
Project(doc, proj) ==
    LET keep == IF proj = {} THEN DOMAIN doc.props ELSE (DOMAIN doc.props) \cap proj
    IN  [doc EXCEPT !.props = [m \in keep |-> ThroughStorage(doc.props[m])]]

\* the storage cursor after find, sort, skip and limit
RunFind(q, docs) ==
    LET found == Find(docs, LowerStr(q.kind), QueryFilters(q))
        sorted == IF Len(q.orders) > 0 THEN Sort(found, Ordering(q)) ELSE found
        skipped == IF q.hasOffset THEN Skip(sorted, SkipCount(q.offset)) ELSE sorted
        limited == IF q.hasLimit THEN Limit(skipped, q.limit) ELSE skipped
    IN  [i \in 1..Len(limited) |-> Project(limited[i], Projection(q))]

Item(kind, key, props, err) ==
    [kind |-> kind, key |-> key, props |-> props, err |-> err]

Raised(err) == Item("error", <<>>, <<>>, err)

\* _dummy_proto
DummyProto(q) == Item("dummy", <<IdElem(q.kind, 0)>>, <<>>, "none")

\* __init__; the key of the ancestor is encoded on the way
NewCursor(q, docs) ==
    LET bad == q.hasAncestor /\ KeyFromPb(q.ancestor).err # "none"
    IN  [class |-> "_IteratorCursor",
         query |-> q,
         filters |-> IF bad THEN NoFilters ELSE QueryFilters(q),
         offset |-> IF q.hasOffset THEN q.offset ELSE 0,
         limit |-> IF q.hasLimit THEN q.limit ELSE 0,
         skipped_results |-> 0,
         results |-> IF bad THEN <<>> ELSE RunFind(q, docs),
         splitted |-> <<>>,
         warned |-> 0,
         out |-> IF bad THEN <<Raised(KeyFromPb(q.ancestor).err)>> ELSE <<>>,
         status |-> IF bad THEN "stop" ELSE "open"]

\* k.replace(STRUCTURED_PROPERTY_DELIMITER, ".")
RestoreDots(name) ==
    [i \in 1..Len(name) |->
        IF name[i] = STRUCTURED_PROPERTY_DELIMITER THEN "." ELSE name[i]]

\* the loop of _parse_mongo: each field decoded
DecodeProps(e) == [m \in DOMAIN e.props |-> DecodeValue(e.props[m])]

\* the entity _parse_mongo builds from the decoded key and fields
EntityOf(k, dec) ==
    IF k.err # "none" THEN Raised(k.err)
    ELSE IF \E m \in DOMAIN dec : dec[m].err # "none"
    THEN Raised(dec[CHOOSE m \in DOMAIN dec : dec[m].err # "none"].err)
    ELSE Item("entity", ToDatastoreKey(k),
              [n \in {RestoreDots(m) : m \in DOMAIN dec} |->
                  dec[CHOOSE m \in DOMAIN dec : RestoreDots(m) = n].val],
              "none")

\* _Document.from_mongo(e).to_pb(), as next() returns it
FromMongo(e) == EntityOf(KeyFromMongo(e._id), DecodeProps(e))

\* the first key of the dict of a constraint: "$exists" comes before the
\* operator in a dict that holds both, and "t" before "v" in a tagged value
FirstKey(spec) ==
    IF spec.kind = "op" THEN (IF spec.exists THEN "$exists" ELSE spec.op)
    ELSE IF spec.kind = "eq" THEN (IF spec.val.exists THEN "$exists" ELSE "t")
    ELSE IF spec.exists THEN "$exists"
    ELSE IF spec.kind = "nin" THEN "$nin" ELSE "$all"

\* _MONGO_FILTER_MAP
MongoFilterOps == {"$lt", "$lte", "$gt", "$gte"}

\* _get_filter_fnc: "none" for None, "op" for the comparison with the value
\* of the constraint, "unbound" for the function of the else branch, whose
\* name spec nothing has bound
GetFilterFnc(spec) ==
    IF spec.kind = "eq" /\ spec.val.form # "dict" THEN "unbound"
    ELSE IF FirstKey(spec) \in MongoFilterOps THEN "op"
    ELSE "none"

\* operator.lt and the others on two values; a number is less than a value
\* that is not one
PyCompare(x, op, y) ==
    LET num(v) == v.form \in {"int", "bool"}
        lt == IF num(x) /\ num(y) THEN x.n < y.n ELSE num(x) /\ ~num(y)
        gt == IF num(x) /\ num(y) THEN x.n > y.n ELSE num(y) /\ ~num(x)
    IN  CASE op = "$lt" -> lt
          [] op = "$lte" -> ~gt
          [] op = "$gt" -> gt
          [] op = "$gte" -> ~lt

\* the constraints _filter_projected_values takes its functions from
FilterFncSpecs(F, prop) ==
    LET top == IF prop \in DOMAIN F.top THEN <<F.top[prop]>> ELSE <<>>
        inAnd == SelectSeq(F.and, LAMBDA f : f.prop = prop)
    IN  IF F.hasAnd /\ Len(top) = 0
        THEN [j \in 1..Len(inAnd) |-> inAnd[j].spec]
        ELSE top

\* iteration over set(values): small numbers come in ascending order
RECURSIVE SetIter(_)
SetIter(elems) ==
    IF elems = {} THEN <<>>
    ELSE LET least == CHOOSE x \in elems : \A y \in elems : x.n <= y.n
         IN  <<least>> \o SetIter(elems \ {least})

\* _filter_projected_values: a dict among the values makes set() raise
FilterProjectedValues(F, prop, values) ==
    LET specs == SelectSeq(FilterFncSpecs(F, prop),
                           LAMBDA sp : GetFilterFnc(sp) # "none")
        elems == {values[i] : i \in 1..Len(values)}
    IN  IF \E x \in elems : x.form \in {"dict", "list"}
        THEN [err |-> "TypeError", vals |-> <<>>]
        ELSE IF Len(specs) = 0 THEN [err |-> "none", vals |-> SetIter(elems)]
        ELSE IF \E j \in 1..Len(specs) : GetFilterFnc(specs[j]) = "unbound"
        THEN [err |-> "NameError", vals |-> <<>>]
        ELSE [err |-> "none",
              vals |-> SetIter({x \in elems :
                          \A j \in 1..Len(specs) :
                              PyCompare(x, specs[j].op, specs[j].val)})]

\* e_new of _split_projected for each value, decoded
Partials(e, prop, vals) ==
    [i \in 1..Len(vals) |->
        FromMongo([e EXCEPT !.props = DictSet(e.props, prop, SList(<<vals[i]>>))])]

\* the loop of _split_projected: each partial entity is put at the front of
\* the list, up to the first that fails to decode
RECURSIVE InsertAll(_, _)
InsertAll(buf, items) ==
    IF Len(items) = 0 THEN [split |-> TRUE, err |-> "none", buf |-> buf]
    ELSE IF items[1].kind = "error"
    THEN [split |-> FALSE, err |-> items[1].err, buf |-> buf]
    ELSE InsertAll(<<items[1]>> \o buf, Tail(items))

\* _split_projected from the filtered values on; the partial entities are
\* bound through a set of one element, which has them worked out once
SplitValues(buf, e, prop, fv) ==
    IF fv.err # "none" THEN [split |-> FALSE, err |-> fv.err, buf |-> buf]
    ELSE CHOOSE r \in {InsertAll(buf, items) :
                          items \in {Partials(e, prop, fv.vals)}} : TRUE

\* _split_projected on the one repeated projected property
SplitOn(c, e, prop) ==
    CHOOSE r \in {SplitValues(c.splitted, e, prop, fv) :
                     fv \in {FilterProjectedValues(c.filters, prop,
                                                   e.props[prop].l)}} : TRUE

\* the projected fields of e that hold a list
Repeated(c, e) ==
    {m \in (DOMAIN e.props) \cap Projection(c.query) : e.props[m].form = "list"}

\* _split_projected were it to split on one of several repeated properties;
\* C12 tells it from SplitProjected
SplitProjectedAny(c, e) ==
    IF Repeated(c, e) = {}
    THEN [split |-> FALSE, err |-> "none", buf |-> c.splitted]
    ELSE SplitOn(c, e, CHOOSE m \in Repeated(c, e) : TRUE)

\* _split_projected, on the list _projection_splitted: [split, err, buf]
SplitProjected(c, e) ==
    IF Cardinality(Repeated(c, e)) # 1
    THEN [split |-> FALSE, err |-> "none", buf |-> c.splitted]
    ELSE SplitOn(c, e, CHOOSE m \in Repeated(c, e) : TRUE)

\* warnings.warn of _split_projected is called on e
Warns(c, e) == Cardinality(Repeated(c, e)) > 1

\* _next_offset were it to count one placeholder more; C6 tells it from
\* NextOffset
NextOffsetOneMore(c) == c.offset <= OffsetCap /\ c.skipped_results <= c.offset

\* _next_offset were it to count placeholders for any offset; C21 tells it
\* from NextOffset
NextOffsetNoCap(c) == c.skipped_results < c.offset

\* _next_offset
NextOffset(c) == c.offset <= OffsetCap /\ c.skipped_results < c.offset

\* pop() were it to take nothing off the list and return nothing; C20 tells
\* it from Pop
PopNothing(c) == c

\* list.pop() on _projection_splitted: the cursor after it
Pop(c) ==
    [c EXCEPT !.splitted = SubSeq(c.splitted, 1, Len(c.splitted) - 1),
              !.out = Append(c.out, c.splitted[Len(c.splitted)])]

\* next() from the document e the storage cursor handed over, sp what
\* _split_projected made of it
AfterPull(c, e, sp) ==
    IF sp.err # "none"
    THEN [c EXCEPT !.splitted = sp.buf, !.out = Append(c.out, Raised(sp.err))]
    ELSE IF sp.split
    THEN IF Len(sp.buf) = 0
         THEN [c EXCEPT !.out = Append(c.out, Raised("IndexError"))]
         ELSE Pop([c EXCEPT !.splitted = sp.buf])
    ELSE [c EXCEPT !.out = Append(c.out, FromMongo(e))]

\* next()
CursorNextResult(c) ==
    IF NextOffset(c)
    THEN [c EXCEPT !.skipped_results = c.skipped_results + 1,
                   !.out = Append(c.out, DummyProto(c.query))]
    ELSE IF Len(c.splitted) > 0 THEN Pop(c)
    ELSE IF Len(c.results) = 0 THEN [c EXCEPT !.status = "stop"]
    ELSE CHOOSE r \in
             {AfterPull([c EXCEPT !.results = Skip(c.results, 1),
                                  !.warned = IF Warns(c, c.results[1])
                                             THEN c.warned + 1 ELSE c.warned],
                        e, sp) :
                  e \in {[c.results[1] EXCEPT !.more = 0]},
                  sp \in {SplitProjected(c, [c.results[1] EXCEPT !.more = 0])}} :
             TRUE

----------------------------------------------------------------------------
(* MongoSchemaManager, the cursors of the pseudo-kinds and of the query    *)
(* without a kind, and MongoDatastore.query and clear.                     *)
(*                                                                         *)
(* The persisted records and the cache are dicts from the collection name  *)
(* under _id to the record get_schema made.                                *)

\* load: the cache rebuilt from the persisted records, each under its _id
Load(coll) == [c \in {coll[x]._id : x \in DOMAIN coll} |-> coll[c]]

\* get_type: [err, val]; a record is one dict, so "_id" and "_kind" are
\* among its keys
GetType(local, kind, prop) ==
    IF kind \notin DOMAIN local
    THEN [err |-> "KeyError", val |-> None]
    ELSE IF prop = <<"_id">> THEN [err |-> "none", val |-> local[kind]._id]
    ELSE IF prop = <<"_kind">> THEN [err |-> "none", val |-> local[kind]._kind]
    ELSE IF prop \notin DOMAIN local[kind].props
    THEN [err |-> "KeyError", val |-> None]
    ELSE [err |-> "none", val |-> local[kind].props[prop]]

\* the values of a dict as a list, in an order of the dict's own
RECURSIVE Values(_)
Values(d) ==
    IF DOMAIN d = {} THEN <<>>
    ELSE LET k == CHOOSE x \in DOMAIN d : TRUE
         IN  <<d[k]>> \o Values(DictDel(d, k))

\* get_kinds
GetKinds(local) == LET v == Values(local) IN [i \in 1..Len(v) |-> v[i]._kind]

\* _to_pseudo_entity(query, type, last): an entity of a key of one element
\* and no property; a string last names the element, a number numbers it
PseudoEntity(elem) == Item("entity", <<elem>>, <<>>, "none")

\* _PseudoKindCursor.__init__: [err, cursor]
PseudoKindCursor(q, local) ==
    LET kinds == GetKinds(local)
        c == [class |-> "_PseudoKindCursor", query |-> q, payload |-> <<>>,
              out |-> <<>>, status |-> "open"]
    IN  IF q.kind = <<"__kind__">>
        THEN [err |-> "none",
              cursor |-> [c EXCEPT !.payload =
                             [i \in 1..Len(kinds) |->
                                 PseudoEntity(NameElem(<<"__kind__">>, kinds[i]))]]]
        ELSE IF q.kind = <<"__namespace__">>
        THEN [err |-> "none",
              cursor |-> [c EXCEPT !.payload =
                             <<PseudoEntity(IdElem(<<"__namespace__">>, 1))>>]]
        ELSE [err |-> "RuntimeError", cursor |-> None]

\* _PseudoKindCursor.next: pop() takes the last
PseudoNext(c) ==
    IF Len(c.payload) = 0 THEN [c EXCEPT !.status = "stop"]
    ELSE [c EXCEPT !.payload = SubSeq(c.payload, 1, Len(c.payload) - 1),
                   !.out = Append(c.out, c.payload[Len(c.payload)])]

\* _StatCursor: a generator over the documents of every collection
StatCursor(q, docs) ==
    [class |-> "_StatCursor", query |-> q, results |-> docs,
     out |-> <<>>, status |-> "open"]

\* next() of the generator: an error leaves it finished
StatNext(c) ==
    IF Len(c.results) = 0 THEN [c EXCEPT !.status = "stop"]
    ELSE IF FromMongo([c.results[1] EXCEPT !.more = 0]).kind = "error"
    THEN [c EXCEPT !.results = <<>>,
                   !.out = Append(c.out, FromMongo([c.results[1] EXCEPT !.more = 0]))]
    ELSE [c EXCEPT !.results = Skip(c.results, 1),
                   !.out = Append(c.out, FromMongo([c.results[1] EXCEPT !.more = 0]))]

\* MongoDatastore.query: [err, cursor]
QueryCursor(q, docs, local) ==
    IF LowerStr(q.kind) \in {<<"__kind__">>, <<"__namespace__">>}
    THEN PseudoKindCursor(q, local)
    ELSE IF LowerStr(q.kind) = <<>>
    THEN [err |-> "none", cursor |-> StatCursor(q, docs)]
    ELSE [err |-> "none", cursor |-> NewCursor(q, docs)]

\* next() of the cursor query gave
CursorStep(c) ==
    IF c.class = "_PseudoKindCursor" THEN PseudoNext(c)
    ELSE IF c.class = "_StatCursor" THEN StatNext(c)
    ELSE CursorNextResult(c)

(* The caller: it stores entities, runs a query and reads the cursor to    *)
(* its end.  ret tells the last call, as in the store.                     *)

Entity(key, props) == [key |-> key, props |-> props]

Query(kind, filters, orders) ==
    [kind |-> kind, filters |-> filters, orders |-> orders,
     hasAncestor |-> FALSE, ancestor |-> <<>>, props |-> <<>>,
     hasOffset |-> FALSE, offset |-> 0, hasLimit |-> FALSE, limit |-> 0]

WithAncestor(q, k) == [q EXCEPT !.hasAncestor = TRUE, !.ancestor = k]
WithProjection(q, props) == [q EXCEPT !.props = props]
WithOffset(q, o) == [q EXCEPT !.hasOffset = TRUE, !.offset = o]
WithLimit(q, l) == [q EXCEPT !.hasLimit = TRUE, !.limit = l]

\* put of one entity under a key that is not stored yet
PutNew(entities, max) ==
    /\ cur = None
    /\ Cardinality(DOMAIN lastPut) < max
    /\ \E e \in entities : e.key \notin DOMAIN lastPut /\ Put(<<e>>)

\* MongoDatastore.query
RunQuery(queries) ==
    /\ cur = None
    /\ \E q \in queries : cur' = NewCursor(q, db)
    /\ UNCHANGED <<storeVars, inp, outp, pc>>

\* the caller asks the cursor for its next result, also after the cursor
\* has raised StopIteration
CursorNext ==
    /\ cur # None
    /\ cur' = CursorStep(cur)
    /\ UNCHANGED <<storeVars, inp, outp, pc>>

(* What the claims about queries say of a cursor that was read to its end. *)

Finished == cur # None /\ cur.status = "stop"

\* the entities the cursor returned, in order
Returned == SelectSeq(cur.out, LAMBDA it : it.kind = "entity")

Dummies == SelectSeq(cur.out, LAMBDA it : it.kind = "dummy")

Errors == SelectSeq(cur.out, LAMBDA it : it.kind = "error")

\* the keys of the stored entities of a kind
StoredOfKind(kind) ==
    {k \in DOMAIN lastPut : Len(k) > 0 /\ k[Len(k)].type = kind}

----------------------------------------------------------------------------
(* Ancestor queries over a few entities of one kind in one entity group    *)
(* tree.                                                                   *)

MaxAncestorDocs == 3

QKind == <<"Q">>

QKey(ids) == [i \in 1..Len(ids) |-> IdElem(QKind, ids[i])]

AncestorKeys == {QKey(<<1>>), QKey(<<2>>), QKey(<<1, 2>>), QKey(<<2, 1>>),
                 QKey(<<1, 2, 3>>)}

AncestorEntities ==
    {Entity(k, [n \in {<<"a">>} |-> VInt(1)]) : k \in AncestorKeys}

AncestorQueries ==
    {WithAncestor(Query(QKind, <<>>, <<>>), k) :
        k \in {QKey(<<1>>), QKey(<<1, 2>>)}}

InitQuery ==
    /\ IdleStore
    /\ inp = None
    /\ outp = None
    /\ pc = "idle"

NextAncestor ==
    \/ PutNew(AncestorEntities, MaxAncestorDocs)
    \/ RunQuery(AncestorQueries)
    \/ CursorNext

SpecAncestor == InitQuery /\ [][NextAncestor]_vars

\* K is a prefix of the key path k
IsPrefix(K, k) == Len(K) <= Len(k) /\ SubSeq(k, 1, Len(K)) = K

\* C4: a query with ancestor K returns exactly the stored entities (of the
\* kind asked for) whose key path has K as a prefix, and raises nothing
C4_AncestorExact ==
    Finished /\ cur.query.hasAncestor =>
        /\ Errors = <<>>
        /\ {Returned[i].key : i \in 1..Len(Returned)}
               = {k \in StoredOfKind(cur.query.kind) :
                      IsPrefix(cur.query.ancestor, k)}

----------------------------------------------------------------------------
(* Queries with an offset.  The cap of _next_offset lies above ten         *)
(* thousand, so next to the entities put one by one the store can be       *)
(* filled by one put of BulkDocs entities of the kind, which it holds as   *)
(* one run.  On the store so filled only the queries that skip beyond the  *)
(* cap are run, which keeps the cursors that are read to their end short.  *)

MaxOffsetDocs == 3
BulkDocs == 10002

OffsetEntities ==
    {Entity(QKey(<<i>>), [n \in {<<"a">>} |-> VInt(i)]) : i \in 1..3}

BulkEntity(i) == Entity(QKey(<<MaxOffsetDocs + i>>), [n \in {<<"a">>} |-> VInt(0)])

\* the document put saves for an entity (from_pb, to_mongo)
Document(e) ==
    [_id |-> ToMongoKey(KeyFromPb(e.key)),
     coll |-> Collection(KeyFromPb(e.key)),
     props |-> MongoProps(e.props),
     more |-> 0]

\* put of BulkDocs new entities, all of one schema, on the empty store
BulkPut ==
    /\ cur = None
    /\ db = <<>>
    /\ db' = <<[Document(BulkEntity(1)) EXCEPT !.more = BulkDocs - 1]>>
    /\ LET sch == UpdateIfChanged([coll |-> schemaColl, local |-> localSchema,
                                   saves |-> 0],
                                  GetSchema(KeyFromPb(BulkEntity(1).key),
                                            BulkEntity(1).props))
       IN  schemaColl' = sch.coll /\ localSchema' = sch.local
    /\ ret' = [op |-> "put", err |-> "none", arg |-> <<>>,
               val |-> [keys |-> <<BulkEntity(1).key>>]]
    /\ UNCHANGED <<lastPut, cur, inp, outp, pc>>

Offsets == {0, 1, 2, 3, OffsetCap + 1, OffsetCap + 3, CountOffset}

AtLeast2 == <<[prop |-> <<"a">>, op |-> "GREATER_THAN_OR_EQUAL", val |-> VInt(2)]>>

OffsetQueries ==
    {Query(QKind, <<>>, <<>>)}
    \cup {WithOffset(Query(QKind, <<>>, <<>>), o) : o \in Offsets}
    \cup {WithOffset(Query(QKind, AtLeast2, <<>>), o) : o \in {1, 2}}
    \cup {WithLimit(WithOffset(Query(QKind, <<>>, <<>>), o), 2) : o \in {0, 1, 2}}

BeyondCap(q) ==
    q.hasOffset /\ q.offset > OffsetCap /\ q.offset < CountOffset /\ ~q.hasLimit

NextOffsetQueries ==
    \/ PutNew(OffsetEntities, MaxOffsetDocs)
    \/ BulkPut
    \/ RunQuery({q \in OffsetQueries : Count(db) > MaxOffsetDocs => BeyondCap(q)})
    \/ CursorNext

SpecOffset == InitQuery /\ [][NextOffsetQueries]_vars

\* the number of documents the storage query selects, before skip and limit
FoundCount == Count(Find(db, LowerStr(cur.query.kind), cur.filters))

\* a cursor read to its end, of a query with an offset and neither a limit
\* nor a projection
PlainOffset ==
    /\ Finished
    /\ cur.query.hasOffset
    /\ ~cur.query.hasLimit
    /\ cur.query.props = <<>>

\* C6 as stated: with offset N below the number T of matching entities the
\* cursor returns T - N results and reports N as skipped
C6_SkippedIsOffset ==
    PlainOffset /\ cur.offset < FoundCount =>
        /\ Len(Returned) = FoundCount - cur.offset
        /\ cur.skipped_results = cur.offset

\* C6, amended: with offset N below the number T of matching entities the
\* cursor returns T - N results; it reports N as skipped when N is at most
\* the cap of _next_offset, and 0 when N is beyond it
C6_SkippedUpToCap ==
    PlainOffset /\ cur.offset < FoundCount =>
        /\ Len(Returned) = FoundCount - cur.offset
        /\ Errors = <<>>
        /\ cur.skipped_results = (IF cur.offset <= OffsetCap THEN cur.offset ELSE 0)
        /\ Len(Dummies) = cur.skipped_results

\* an offset beyond the cap and below the count was read to the end
C6_Witness ==
    PlainOffset /\ cur.offset > OffsetCap /\ cur.offset < FoundCount

\* C7 as stated: a query whose offset exceeds the cap returns no result and
\* raises nothing, whatever the number of matching entities
C7_BeyondCapNothing ==
    Finished /\ cur.query.hasOffset /\ cur.offset > OffsetCap =>
        Returned = <<>> /\ Errors = <<>>

\* C7, amended: a query without limit or projection whose offset N exceeds
\* the cap raises nothing and returns no placeholder; it returns no result
\* when N is at least the number T of matching entities and below the offset
\* that is reset to 0, the T - N results after the first N when N is below
\* T, and all T when N is the offset that is reset or beyond it
C7_BeyondCap ==
    PlainOffset /\ cur.offset > OffsetCap =>
        /\ Dummies = <<>>
        /\ Errors = <<>>
        /\ Len(Returned) = (IF cur.offset >= CountOffset THEN FoundCount
                            ELSE IF cur.offset >= FoundCount THEN 0
                            ELSE FoundCount - cur.offset)

\* such a query was read to its end on a store that holds matching entities
C7_Witness ==
    /\ Finished
    /\ cur.query.hasOffset
    /\ cur.offset > OffsetCap
    /\ cur.offset < CountOffset
    /\ cur.offset >= FoundCount
    /\ FoundCount > 0

----------------------------------------------------------------------------
(* Projection queries on a repeated property.                              *)

MaxProjectionDocs == 2

ListOf(vals) == VList([i \in 1..Len(vals) |-> vals[i]])

ProjectionEntities ==
    {Entity(QKey(<<1>>), [n \in {<<"a">>} |-> ListOf(<<VInt(1), VInt(2), VInt(3)>>)]),
     Entity(QKey(<<2>>), [n \in {<<"a">>} |-> ListOf(<<VInt(2), VInt(1)>>)]),
     Entity(QKey(<<3>>), [n \in {<<"a">>} |-> ListOf(<<VDate(1, 0), VDate(2, 0)>>)]),
     Entity(QKey(<<4>>), [n \in {<<"a">>, <<"b">>} |->
                             IF n = <<"a">> THEN ListOf(<<VInt(1), VInt(2)>>)
                             ELSE ListOf(<<VInt(3), VInt(4)>>)])}

FilterOn(prop, op, val) == [prop |-> prop, op |-> op, val |-> val]

ProjectionFilters ==
    {<<>>,
     <<FilterOn(<<"a">>, "LESS_THAN", VInt(3))>>,
     <<FilterOn(<<"a">>, "LESS_THAN", VInt(3)),
       FilterOn(<<"a">>, "GREATER_THAN", VInt(1))>>,
     <<FilterOn(<<"a">>, "EQUAL", VInt(2))>>}

OrderBy(prop, dir) == [prop |-> prop, dir |-> dir]

ProjectionQueries ==
    {WithProjection(Query(QKind, f, o), <<<<"a">>>>) :
        f \in ProjectionFilters, o \in {<<>>, <<OrderBy(<<"a">>, ASCENDING)>>}}
    \cup {WithProjection(Query(QKind, <<>>, <<>>), <<<<"a">>, <<"b">>>>)}

NextProjection ==
    \/ PutNew(ProjectionEntities, MaxProjectionDocs)
    \/ RunQuery(ProjectionQueries)
    \/ CursorNext

SpecProjection == InitQuery /\ [][NextProjection]_vars

\* the elements of a value: of a list its members, of another value itself
Elements(v) == IF v.t = "list" THEN {v.l[i] : i \in 1..Len(v.l)} ELSE {v}

\* the value x satisfies the query filter f
Satisfies(x, f) ==
    CASE f.op = "EQUAL" -> x = f.val
      [] f.op = "LESS_THAN" -> x.t = "int" /\ f.val.t = "int" /\ x.n < f.val.n
      [] f.op = "LESS_THAN_OR_EQUAL" -> x.t = "int" /\ f.val.t = "int" /\ x.n <= f.val.n
      [] f.op = "GREATER_THAN" -> x.t = "int" /\ f.val.t = "int" /\ x.n > f.val.n
      [] f.op = "GREATER_THAN_OR_EQUAL" -> x.t = "int" /\ f.val.t = "int" /\ x.n >= f.val.n

\* the filters of the query of the cursor on the property prop
FiltersOn(prop) == SelectSeq(cur.query.filters, LAMBDA f : f.prop = prop)

\* the entities the cursor returned for the key k, in order
Parts(k) == SelectSeq(Returned, LAMBDA it : it.key = k)

\* each of them carries one element under prop, and these are the elements
PartsCarry(k, prop, elems) ==
    /\ \A i \in 1..Len(Parts(k)) :
           /\ prop \in DOMAIN Parts(k)[i].props
           /\ Parts(k)[i].props[prop].t = "list"
           /\ Len(Parts(k)[i].props[prop].l) = 1
    /\ {Parts(k)[i].props[prop].l[1] : i \in 1..Len(Parts(k))} = elems

\* a cursor read to its end, of a query that projects the one property prop
ProjectedOn(prop) == Finished /\ cur.query.props = <<prop>>

\* the stored entities of the kind asked for on which prop is repeated
WithRepeated(prop) ==
    {k \in StoredOfKind(cur.query.kind) :
        prop \in DOMAIN lastPut[k] /\ lastPut[k][prop].t = "list"}

\* C8: with one projected repeated property and no filter on it, the cursor
\* returns for a document one partial entity per distinct element, each with
\* a list of that one element, the first element of the document first, and
\* raises nothing
C8_OnePartPerElement ==
    ProjectedOn(<<"a">>) /\ cur.query.filters = <<>> =>
        /\ Errors = <<>>
        /\ \A k \in WithRepeated(<<"a">>) :
               /\ PartsCarry(k, <<"a">>, Elements(lastPut[k][<<"a">>]))
               /\ Len(Parts(k)) = Cardinality(Elements(lastPut[k][<<"a">>]))
               /\ Parts(k)[1].props[<<"a">>].l[1] = lastPut[k][<<"a">>].l[1]

\* C9: with filters on the projected repeated property, ordered by it or not,
\* the partial entities returned for a document are those of the elements
\* that satisfy every filter
C9_PartsSatisfyFilters ==
    ProjectedOn(<<"a">>) /\ Len(FiltersOn(<<"a">>)) > 0 =>
        \A k \in WithRepeated(<<"a">>) :
            PartsCarry(k, <<"a">>,
                       {x \in Elements(lastPut[k][<<"a">>]) :
                           \A j \in 1..Len(FiltersOn(<<"a">>)) :
                               Satisfies(x, FiltersOn(<<"a">>)[j])})

----------------------------------------------------------------------------
(* Ordered queries over entities that have the ordered property, lack it,  *)
(* or hold a value of a type without an order under it.                    *)

MaxOrderDocs == 3

OrderEntities ==
    {Entity(QKey(<<1>>), [n \in {<<"a">>} |-> VInt(1)]),
     Entity(QKey(<<2>>), [n \in {<<"a">>} |-> VInt(2)]),
     Entity(QKey(<<3>>), [n \in {<<"b">>} |-> VInt(5)]),
     Entity(QKey(<<4>>), [n \in {<<"a">>} |-> VText(<<"x">>)]),
     Entity(QKey(<<5>>), [n \in {<<"a">>} |-> VDate(1, 0)]),
     Entity(QKey(<<6>>), [n \in {<<"a">>} |->
                             ListOf(<<VBlob(<<"x">>), VLocal(<<"y">>)>>)])}

OrderFilterLists ==
    {<<>>,
     <<FilterOn(<<"a">>, "GREATER_THAN_OR_EQUAL", VInt(2))>>,
     <<FilterOn(<<"a">>, "EQUAL", VDate(1, 0))>>}

OrderQueries ==
    {Query(QKind, f, <<OrderBy(<<"a">>, dir)>>) :
        f \in OrderFilterLists, dir \in {ASCENDING, DESCENDING}}

NextOrder ==
    \/ PutNew(OrderEntities, MaxOrderDocs)
    \/ RunQuery(OrderQueries)
    \/ CursorNext

SpecOrder == InitQuery /\ [][NextOrder]_vars

\* the types the datastore keeps no order of
UnorderableTypes == {"Text", "Blob", "EmbeddedEntity"}

Orderable(v) == \A x \in Elements(v) : x.t \notin UnorderableTypes

\* the entity of properties props satisfies the filters of the query
SatisfiesAll(props, filters) ==
    \A j \in 1..Len(filters) :
        /\ filters[j].prop \in DOMAIN props
        /\ \E x \in Elements(props[filters[j].prop]) : Satisfies(x, filters[j])

\* the stored entities of the kind that match the query of the cursor and
\* have the property prop, of a type with an order
MatchingWith(prop) ==
    {k \in StoredOfKind(cur.query.kind) :
        /\ prop \in DOMAIN lastPut[k]
        /\ Orderable(lastPut[k][prop])
        /\ SatisfiesAll(lastPut[k], cur.query.filters)}

\* the numbers under prop come in the direction dir
InDirection(results, prop, dir) ==
    \A i \in 1..Len(results) : \A j \in (i + 1)..Len(results) :
        (results[i].props[prop].t = "int" /\ results[j].props[prop].t = "int")
            => IF dir = ASCENDING
               THEN results[i].props[prop].n <= results[j].props[prop].n
               ELSE results[i].props[prop].n >= results[j].props[prop].n

\* C10: a query ordered by a returns exactly the matching entities that have
\* a (those whose a has a type without an order aside, which are left out),
\* each once, sorted in the direction asked for, and raises nothing
C10_OrderedHaveProperty ==
    Finished /\ Len(cur.query.orders) = 1 /\ cur.query.orders[1].prop = <<"a">> =>
        /\ Errors = <<>>
        /\ {Returned[i].key : i \in 1..Len(Returned)} = MatchingWith(<<"a">>)
        /\ Len(Returned) = Cardinality(MatchingWith(<<"a">>))
        /\ InDirection(Returned, <<"a">>, cur.query.orders[1].dir)

\* a cursor read to its end, of a query ordered by the one property prop
OrderedBy(prop) ==
    Finished /\ Len(cur.query.orders) = 1 /\ cur.query.orders[1].prop = prop

\* the keys of the entities the cursor returned
ReturnedKeys == {Returned[i].key : i \in 1..Len(Returned)}

PullsSeveralRepeated ==
    /\ cur # None
    /\ cur.status = "open"
    /\ ~NextOffset(cur)
    /\ Len(cur.splitted) = 0
    /\ Len(cur.results) > 0
    /\ Cardinality(Repeated(cur, cur.results[1])) > 1

\* the entity stored under key, cut down to the projected properties
ProjectedEntity(key, names) ==
    Item("entity", key, [n \in names \cap DOMAIN lastPut[key] |-> lastPut[key][n]],
         "none")

----------------------------------------------------------------------------
(* The schema manager and the pseudo-kinds under puts, clears and calls of *)
(* update_if_changed, get_type and get_kinds, with kinds that share a      *)
(* collection: A and a as roots, B as a child of A.                        *)

MaxSchemaDocs == 2

SchemaKeys ==
    {<<IdElem(<<"A">>, 1)>>,
     <<IdElem(<<"a">>, 1)>>,
     <<IdElem(<<"A">>, 1), IdElem(<<"B">>, 2)>>}

SchemaProps ==
    {[n \in {<<"a">>} |-> VInt(1)],
     [n \in {<<"a">>} |-> VUni(<<"x">>)]}

SchemaEntities == {Entity(k, p) : k \in SchemaKeys, p \in SchemaProps}

SchemaKinds == {<<"A">>, <<"a">>, <<"B">>}

SchemaQueries ==
    {Query(k, <<>>, <<>>) :
        k \in {<<"__kind__">>, <<"__namespace__">>, <<"__property__">>,
               <<"__KIND__">>, <<>>}}

\* put of one entity, with at most MaxSchemaDocs keys stored
SchemaPut ==
    /\ cur = None
    /\ \E e \in SchemaEntities :
           /\ Cardinality(DOMAIN lastPut \cup {e.key}) <= MaxSchemaDocs
           /\ Put(<<e>>)

\* MongoDatastore.clear: drop_database takes the collections and _schema
Clear ==
    /\ cur = None
    /\ db' = <<>>
    /\ schemaColl' = <<>>
    /\ lastPut' = <<>>
    /\ ret' = [op |-> "clear", err |-> "none", arg |-> <<>>, val |-> None]
    /\ UNCHANGED <<localSchema, cur, inp, outp, pc>>

\* a call of schema.update_if_changed
UpdateSchema ==
    /\ cur = None
    /\ \E e \in SchemaEntities :
           LET schema == GetSchema(KeyFromPb(e.key), e.props)
               sch == UpdateIfChanged([coll |-> schemaColl, local |-> localSchema,
                                       saves |-> 0], schema)
           IN  /\ schemaColl' = sch.coll
               /\ localSchema' = sch.local
               /\ ret' = [op |-> "update_if_changed", err |-> "none",
                          arg |-> schema, val |-> [saves |-> sch.saves]]
    /\ UNCHANGED <<db, lastPut, cur, inp, outp, pc>>

\* a call of schema.get_type
CallGetType ==
    /\ cur = None
    /\ \E kind \in SchemaKinds, prop \in {<<"a">>, <<"b">>} :
           LET r == GetType(localSchema, kind, prop)
           IN  ret' = [op |-> "get_type", err |-> r.err,
                       arg |-> <<kind, prop>>, val |-> r.val]
    /\ UNCHANGED <<db, lastPut, schemaColl, localSchema, cur, inp, outp, pc>>

\* a call of schema.get_kinds
CallGetKinds ==
    /\ cur = None
    /\ ret' = [op |-> "get_kinds", err |-> "none", arg |-> <<>>,
               val |-> GetKinds(localSchema)]
    /\ UNCHANGED <<db, lastPut, schemaColl, localSchema, cur, inp, outp, pc>>

\* a call of MongoDatastore.query: a cursor, or an error and none
CallQuery(queries) ==
    /\ cur = None
    /\ \E q \in queries :
           LET r == QueryCursor(q, db, localSchema)
           IN  /\ cur' = r.cursor
               /\ ret' = [op |-> "query", err |-> r.err, arg |-> q, val |-> None]
    /\ UNCHANGED <<db, lastPut, schemaColl, localSchema, inp, outp, pc>>

NextSchema ==
    \/ SchemaPut
    \/ Clear
    \/ UpdateSchema
    \/ CallGetType
    \/ CallGetKinds
    \/ CallQuery(SchemaQueries)
    \/ CursorNext

SpecSchema == InitQuery /\ [][NextSchema]_vars

\* the last call was op
Called(op) == ret # None /\ ret.op = op

KindQuery == Query(<<"__kind__">>, <<>>, <<>>)

\* C13: after clear() the storage holds no entity and no schema record, and
\* the schema manager reports no kind: get_kinds is empty and a query on
\* __kind__ has nothing to yield
C13_ClearDropsAll ==
    Called("clear") =>
        /\ db = <<>>
        /\ schemaColl = <<>>
        /\ GetKinds(localSchema) = <<>>
        /\ QueryCursor(KindQuery, db, localSchema).cursor.payload = <<>>

\* the cache holds the record
Cached(schema) == \E c \in DOMAIN localSchema : localSchema[c] = schema

\* a step that is a call of update_if_changed
UpdateStep ==
    /\ cur = None
    /\ cur' = None
    /\ ret'.op = "update_if_changed"
    /\ Called("update_if_changed") => (ret'.arg # ret.arg \/ ret'.val # ret.val)

\* C14: a call of update_if_changed saves the record once if the cache does
\* not hold it and not at all if it does, so of two calls in a row with equal
\* records the second saves nothing
C14_SaveIffChanged ==
    [][UpdateStep =>
          /\ ret'.val.saves = (IF Cached(ret'.arg) THEN 0 ELSE 1)
          /\ schemaColl' = (IF Cached(ret'.arg)
                            THEN schemaColl
                            ELSE DictSet(schemaColl, ret'.arg._id, ret'.arg))
          /\ (Called("update_if_changed") /\ ret.arg = ret'.arg)
                 => ret'.val.saves = 0
      ]_vars

\* the second of two calls in a row with equal records has saved nothing,
\* the first having saved
C14_Witness ==
    /\ Called("update_if_changed")
    /\ ret.val.saves = 0
    /\ Cached(ret.arg)
    /\ ret.arg._id \in DOMAIN schemaColl
    /\ schemaColl[ret.arg._id] = ret.arg

\* C15: get_type(kind, prop) returns the tag the record of that kind holds
\* for prop, and fails with KeyError when that record has no prop
C15_GetTypeByKind ==
    Called("get_type") =>
        \A c \in DOMAIN localSchema :
            localSchema[c]._kind = ret.arg[1] =>
                IF ret.arg[2] \in DOMAIN localSchema[c].props
                THEN ret.err = "none" /\ ret.val = localSchema[c].props[ret.arg[2]]
                ELSE ret.err = "KeyError"

\* C17: a query on __property__ raises and gives no cursor, and a query on
\* __namespace__ gives a cursor of one entity
C17_UnsupportedPseudoKindFails ==
    Called("query") =>
        /\ ret.arg.kind = <<"__property__">> => (ret.err # "none" /\ cur = None)
        /\ ret.arg.kind = <<"__namespace__">> =>
               /\ ret.err = "none"
               /\ Len(cur.out) + Len(cur.payload) = 1

----------------------------------------------------------------------------
(* The kinds the schema manager knows after puts alone.                    *)

NextKinds ==
    \/ SchemaPut
    \/ CallGetKinds
    \/ CallQuery({KindQuery})
    \/ CursorNext

SpecKinds == InitQuery /\ [][NextKinds]_vars

\* the kinds of the entities that were put
PutKinds == {k[Len(k)].type : k \in DOMAIN lastPut}

\* the names of the keys of the entities a finished cursor returned
ReturnedNames == {Returned[i].key[1].name : i \in 1..Len(Returned)}

\* C16: get_kinds and a query on __kind__ give one entry for each kind of
\* entity that was put
C16_OneRecordPerKind ==
    /\ Called("get_kinds") =>
           /\ Len(ret.val) = Cardinality(PutKinds)
           /\ {ret.val[i] : i \in 1..Len(ret.val)} = PutKinds
    /\ Finished =>
           /\ Len(Returned) = Cardinality(PutKinds)
           /\ ReturnedNames = PutKinds

----------------------------------------------------------------------------
(* The store given malformed keys: an empty path, and a last element with  *)
(* neither id nor name.                                                    *)

GoodKeys ==
    {<<IdElem(<<"A">>, 1)>>,
     <<IdElem(<<"A">>, 1), IdElem(<<"B">>, 2)>>}

MalformedKeys ==
    {<<>>,
     <<IdElem(<<"A">>, 1), BareElem(<<"B">>)>>}

GivenEntities ==
    {Entity(<<IdElem(<<"A">>, 1)>>, [n \in {<<"a">>} |-> VInt(1)]),
     Entity(<<IdElem(<<"A">>, 1), IdElem(<<"B">>, 2)>>,
            [n \in {<<"b">>} |-> VUni(<<"a">>)])}
    \cup {Entity(k, [n \in {<<"a">>} |-> VInt(1)]) : k \in MalformedKeys}

\* the lists of entities put is given
Batches == UNION {[1..n -> GivenEntities] : n \in 1..MaxBatch}

Malformed(key) == Len(key) = 0 \/ key[Len(key)].has = "none"

HasMalformed(batch) == \E i \in 1..Len(batch) : Malformed(batch[i].key)

\* the entities of a batch ahead of the first malformed key
RECURSIVE Ahead(_)
Ahead(batch) ==
    IF Len(batch) = 0 THEN <<>>
    ELSE IF Malformed(batch[1].key) THEN <<>>
    ELSE <<batch[1]>> \o Ahead(Tail(batch))

PutGiven == \E batch \in Batches : Put(batch)

GetGiven == \E k \in GoodKeys \cup MalformedKeys : Get(k)

DeleteGiven == \E k \in GoodKeys \cup MalformedKeys : Delete(k)

NextGiven == PutGiven \/ GetGiven \/ DeleteGiven

SpecGiven == InitStore /\ [][NextGiven]_vars

\* the call raises and changes nothing
Rejected ==
    /\ ret'.err # "none"
    /\ UNCHANGED <<db, schemaColl, localSchema>>

\* what put leaves of the store, given entities of well-formed keys
AfterPut(entities) ==
    PutAll([db |-> db,
            sch |-> [coll |-> schemaColl, local |-> localSchema, saves |-> 0],
            err |-> "none",
            keys |-> <<>>], entities)

\* the put raises, and leaves what the put of the entities ahead of the
\* malformed key leaves
RejectedFrom(batch) ==
    /\ ret'.err # "none"
    /\ db' = AfterPut(Ahead(batch)).db
    /\ schemaColl' = AfterPut(Ahead(batch)).sch.coll
    /\ localSchema' = AfterPut(Ahead(batch)).sch.local
    /\ ret'.val.keys = [i \in 1..Len(Ahead(batch)) |-> Ahead(batch)[i].key]

\* C18 as stated: put, get or delete given a malformed key raises and
\* leaves the documents, the persisted schema and the cache as they were
C18_MalformedRejected ==
    [][/\ \A batch \in Batches : (HasMalformed(batch) /\ Put(batch)) => Rejected
       /\ \A k \in MalformedKeys : (Get(k) \/ Delete(k)) => Rejected
      ]_vars

\* C18: get or delete given a malformed key raises and changes nothing, and
\* put raises at the first entity of a malformed key: the entities ahead of
\* it in the list are stored with their schema, it and those after it are not
C18_MalformedRejectedFrom ==
    [][/\ \A batch \in Batches :
              (HasMalformed(batch) /\ Put(batch)) => RejectedFrom(batch)
       /\ \A k \in MalformedKeys : (Get(k) \/ Delete(k)) => Rejected
      ]_vars

\* a put has raised after storing an entity
C18_Witness ==
    /\ Called("put")
    /\ ret.err # "none"
    /\ Len(ret.val.keys) = 1
    /\ Len(db) > 0

----------------------------------------------------------------------------
(* DatastoreMongoDBStub._AllocateIds.                                      *)
(*                                                                         *)
(* inp is the clock: long(time.time() * 10000000) as the next call would   *)
(* read it, counted from the start of the behaviour; outp is the list of   *)
(* the ranges the calls have returned.                                     *)

MaxClock == 3
MaxAllocs == 3
MaxSize == 2

\* _AllocateIds(reference, size, max_id) read at clock t: [err, val]
AllocateIds(t, size, max_id) ==
    IF size # 0 /\ max_id # 0
    THEN [err |-> "BadRequestError", val |-> None]
    ELSE [err |-> "none", val |-> [min |-> t, max |-> t + size]]

InitAlloc ==
    /\ IdleStore
    /\ inp = 0
    /\ outp = <<>>
    /\ pc = "idle"

\* the clock moves on
Tick ==
    /\ inp < MaxClock
    /\ inp' = inp + 1
    /\ UNCHANGED <<storeVars, cur, outp, pc>>

\* a call of _AllocateIds
CallAllocateIds ==
    /\ Len(outp) < MaxAllocs
    /\ \E size \in 0..MaxSize, max_id \in {0, 5} :
           LET r == AllocateIds(inp, size, max_id)
           IN  /\ ret' = [op |-> "allocate_ids", err |-> r.err,
                          arg |-> <<size, max_id>>, val |-> r.val]
               /\ outp' = IF r.err = "none" THEN Append(outp, r.val) ELSE outp
    /\ UNCHANGED <<db, lastPut, schemaColl, localSchema, cur, inp, pc>>

NextAlloc == Tick \/ CallAllocateIds

SpecAlloc == InitAlloc /\ [][NextAlloc]_vars

\* C19: each call returns (min, max) with max = min + size, and a min above
\* the max of every call before it
C19_AllocatedIncreasing ==
    /\ (Called("allocate_ids") /\ ret.err = "none") =>
           ret.val.max = ret.val.min + ret.arg[1]
    /\ \A i \in 1..Len(outp), j \in 1..Len(outp) :
           i < j => outp[j].min > outp[i].max

----------------------------------------------------------------------------
(* A caller that goes on pulling: projection queries with and without an   *)
(* offset, over the entities of the projection queries.  The caller of a   *)
(* cursor calls next() until StopIteration, so a pull that is due is made. *)

PullQueries ==
    ProjectionQueries
    \cup {WithOffset(WithProjection(Query(QKind, <<>>, <<>>), <<<<"a">>>>), o) :
             o \in {1, 2, OffsetCap + 1}}

NextPull ==
    \/ PutNew(ProjectionEntities, MaxProjectionDocs)
    \/ RunQuery(PullQueries)
    \/ CursorNext

SpecPull == InitQuery /\ [][NextPull]_vars /\ WF_vars(CursorNext)

\* the next call of next() finds partial entities in the buffer
PopsBuffer ==
    /\ cur # None
    /\ cur.status = "open"
    /\ ~NextOffset(cur)
    /\ Len(cur.splitted) > 0

\* C20: the pulls of a cursor lead to StopIteration; StopIteration is raised
\* only with the storage cursor exhausted and the buffer empty, a pull that
\* finds partial entities in the buffer returns the last of them, and a pull
\* after StopIteration raises StopIteration again and returns nothing
C20_CursorTerminates ==
    /\ (cur # None) ~> Finished
    /\ [](Finished => (Len(cur.results) = 0 /\ Len(cur.splitted) = 0))
    /\ [](Finished => CursorStep(cur) = cur)
    /\ [][PopsBuffer =>
             /\ cur'.status = "open"
             /\ cur'.out = Append(cur.out, cur.splitted[Len(cur.splitted)])
             /\ Len(cur'.splitted) = Len(cur.splitted) - 1
         ]_vars

\* a cursor with an offset has returned placeholders and partial entities
\* and has raised StopIteration
C20_Witness ==
    /\ Finished
    /\ Len(Dummies) = 1
    /\ Len(Returned) >= 2
    /\ Len(cur.query.props) = 1

----------------------------------------------------------------------------
(* The skip accounting of a cursor, over the queries with an offset.       *)

\* the placeholders come first in what the cursor has returned
DummiesFirst ==
    \A i \in 1..Len(cur.out), j \in 1..Len(cur.out) :
        (i < j /\ cur.out[j].kind = "dummy") => cur.out[i].kind = "dummy"

\* C21: the skipped count stays between 0 and the requested offset and never
\* goes down, the placeholders are as many as the count says, come within
\* the first offset pulls and before any result, and with an offset beyond
\* the cap there is no placeholder and the count stays 0
C21_SkipAccounting ==
    /\ [](cur # None =>
             /\ 0 <= cur.skipped_results
             /\ cur.skipped_results <= cur.offset
             /\ cur.offset = (IF cur.query.hasOffset THEN cur.query.offset ELSE 0)
             /\ Len(Dummies) = cur.skipped_results
             /\ DummiesFirst
             /\ cur.offset > OffsetCap => cur.skipped_results = 0)
    /\ [][(cur # None /\ cur' # None) =>
             /\ cur'.skipped_results >= cur.skipped_results
             /\ cur'.skipped_results <= cur.skipped_results + 1
             /\ cur'.skipped_results = cur.skipped_results + 1
                    <=> cur'.out = Append(cur.out, DummyProto(cur.query))
         ]_vars

\* a cursor has returned its placeholders and then a result
C21_Witness ==
    /\ cur # None
    /\ cur.offset = 2
    /\ cur.skipped_results = 2
    /\ Len(Returned) > 0

----------------------------------------------------------------------------
(* A put that is cut short between update_if_changed and coll.save, and    *)
(* the restart after it.  pc is "down" from the crash to the restart, and  *)
(* inp keeps the schema record the last cut put was writing.               *)

\* the schema of an entity as put derives it
SchemaOf(e) == GetSchema(KeyFromPb(e.key), e.props)

\* put of one entity by a running instance
PutRunning == pc = "idle" /\ SchemaPut

\* put up to line 920: the schema is updated, the document is not saved,
\* and the process is gone with its cache
CrashInPut ==
    /\ pc = "idle"
    /\ cur = None
    /\ \E e \in SchemaEntities :
           /\ schemaColl' = UpdateIfChanged([coll |-> schemaColl,
                                             local |-> localSchema,
                                             saves |-> 0], SchemaOf(e)).coll
           /\ inp' = SchemaOf(e)
    /\ localSchema' = <<>>
    /\ pc' = "down"
    /\ ret' = [op |-> "crash", err |-> "none", arg |-> <<>>, val |-> None]
    /\ UNCHANGED <<db, lastPut, cur, outp>>

\* MongoDatastore.__init__ of the next process: schema.load()
Restart ==
    /\ pc = "down"
    /\ localSchema' = Load(schemaColl)
    /\ pc' = "idle"
    /\ ret' = [op |-> "restart", err |-> "none", arg |-> <<>>, val |-> None]
    /\ UNCHANGED <<db, lastPut, schemaColl, cur, inp, outp>>

NextCrash == PutRunning \/ CrashInPut \/ Restart

SpecCrash == InitQuery /\ [][NextCrash]_vars

\* the entity the last call, a put, has stored
LastStored == Entity(ret.val.keys[1], lastPut[ret.val.keys[1]])

\* C22: after a put that ran to its end, whatever puts were cut short and
\* whatever restarts came before it, the persisted schema record of the
\* entity's collection is the schema derived from the entity
C22_SchemaHeals ==
    (Called("put") /\ ret.err = "none") =>
        /\ SchemaOf(LastStored)._id \in DOMAIN schemaColl
        /\ schemaColl[SchemaOf(LastStored)._id] = SchemaOf(LastStored)

\* a put was cut short after writing a schema record, and a put after the
\* restart has replaced that record
C22_Witness ==
    /\ Called("put")
    /\ ret.err = "none"
    /\ inp # None
    /\ inp._id = SchemaOf(LastStored)._id
    /\ inp # SchemaOf(LastStored)
    /\ schemaColl[inp._id] = SchemaOf(LastStored)

----------------------------------------------------------------------------
(* Two instances of MongoDatastore on one storage.  Each has a schema      *)
(* manager of its own: localSchema is the cache of the first instance and  *)
(* outp the cache of the second; both were loaded from the empty storage.  *)

InitWriters ==
    /\ IdleStore
    /\ inp = None
    /\ outp = <<>>
    /\ pc = "idle"

\* put of one entity by the first instance
PutFirst == SchemaPut

\* put of one entity by the second instance
PutSecond ==
    /\ cur = None
    /\ \E e \in SchemaEntities :
           /\ Cardinality(DOMAIN lastPut \cup {e.key}) <= MaxSchemaDocs
           /\ LET st == PutAll([db |-> db,
                                sch |-> [coll |-> schemaColl, local |-> outp,
                                         saves |-> 0],
                                err |-> "none",
                                keys |-> <<>>], <<e>>)
              IN  /\ db' = st.db
                  /\ schemaColl' = st.sch.coll
                  /\ outp' = st.sch.local
                  /\ lastPut' = Record(lastPut, Stored(<<e>>, Len(st.keys)))
                  /\ ret' = [op |-> "put2", err |-> st.err, arg |-> <<>>,
                             val |-> [keys |-> st.keys]]
    /\ UNCHANGED <<localSchema, cur, inp, pc>>

NextWriters == PutFirst \/ PutSecond

SpecWriters == InitWriters /\ [][NextWriters]_vars

\* the dict holds the record under its _id
Holds(d, schema) == schema._id \in DOMAIN d /\ d[schema._id] = schema

\* the step is a put by instance w that ran to its end
PutBy(w) ==
    /\ ret'.op = (IF w = 1 THEN "put" ELSE "put2")
    /\ ret'.err = "none"

\* the schema of the entity the step has stored
SchemaPutNow == SchemaOf(Entity(ret'.val.keys[1], lastPut'[ret'.val.keys[1]]))

\* C23: a put leaves the persisted schema record different from the schema of
\* the entity it stored exactly when the cache of the writing instance held
\* that schema already while the storage held another record, so that
\* update_if_changed wrote nothing; and such a put happens
C23_StaleSchemaRace ==
    [][\A w \in {1, 2} :
          PutBy(w) =>
              (~Holds(schemaColl', SchemaPutNow)
                   <=> /\ Holds(IF w = 1 THEN localSchema ELSE outp, SchemaPutNow)
                       /\ ~Holds(schemaColl, SchemaPutNow))
      ]_vars

\* the first instance has put an entity of the shape it had put before, the
\* second instance having written another schema record in between: the
\* persisted record is not the schema of the entity just put
C23_Witness ==
    /\ Called("put")
    /\ ret.err = "none"
    /\ Holds(localSchema, SchemaOf(LastStored))
    /\ Holds(outp, schemaColl[SchemaOf(LastStored)._id])
    /\ ~Holds(schemaColl, SchemaOf(LastStored))

----------------------------------------------------------------------------
(* What delete leaves of the store.                                        *)

\* the documents of the store
Documents(docs) == {docs[i] : i \in 1..Len(docs)}

\* C24: delete(key) removes only the entity stored under exactly that key:
\* every document stored under another key, a descendant of the key included,
\* is in the store after the delete as it was before
C24_DeleteOnlyKey ==
    [][\A key \in StoreKeys :
          Delete(key) =>
              \A d \in Documents(db) :
                  d._id # ToMongoKey(KeyFromPb(key)) => d \in Documents(db')
      ]_vars

----------------------------------------------------------------------------
(* Kind queries over entities of two kinds, some stored as children of a   *)
(* root of the other kind.                                                 *)

MaxKindDocs == 3

KindKeys ==
    {<<IdElem(<<"A">>, 1)>>,
     <<IdElem(<<"B">>, 2)>>,
     <<IdElem(<<"A">>, 1), IdElem(<<"B">>, 2)>>,
     <<IdElem(<<"B">>, 2), IdElem(<<"A">>, 3)>>}

KindEntities == {Entity(k, [n \in {<<"a">>} |-> VInt(1)]) : k \in KindKeys}

KindQueries == {Query(<<"A">>, <<>>, <<>>), Query(<<"B">>, <<>>, <<>>)}

NextKindQuery ==
    \/ PutNew(KindEntities, MaxKindDocs)
    \/ RunQuery(KindQueries)
    \/ CursorNext

SpecKindQuery == InitQuery /\ [][NextKindQuery]_vars

\* C25: a query on kind K without filters, ancestor, offset or limit returns
\* exactly the stored entities whose last path element is of kind K, children
\* of a root of another kind included, and raises nothing
C25_KindQueryExact ==
    Finished =>
        /\ Errors = <<>>
        /\ {Returned[i].key : i \in 1..Len(Returned)}
               = StoredOfKind(cur.query.kind)

----------------------------------------------------------------------------
(* Projection queries with filters on the projected repeated property,     *)
(* over documents no single element of which satisfies every filter.       *)

MaxSplitDocs == 2

SplitEntities ==
    {Entity(QKey(<<1>>), [n \in {<<"a">>} |-> ListOf(<<VInt(0), VInt(5)>>)]),
     Entity(QKey(<<2>>), [n \in {<<"a">>} |-> ListOf(<<VInt(2), VInt(5)>>)]),
     Entity(QKey(<<3>>), [n \in {<<"a">>} |-> ListOf(<<VInt(6), VInt(0)>>)])}

SplitFilters ==
    {<<FilterOn(<<"a">>, "LESS_THAN", VInt(3)),
       FilterOn(<<"a">>, "GREATER_THAN", VInt(1))>>,
     <<FilterOn(<<"a">>, "GREATER_THAN", VInt(1)),
       FilterOn(<<"a">>, "LESS_THAN", VInt(3))>>,
     <<FilterOn(<<"a">>, "EQUAL", VInt(5))>>}

SplitQueries ==
    {WithProjection(Query(QKind, f, <<>>), <<<<"a">>>>) : f \in SplitFilters}

NextSplit ==
    \/ PutNew(SplitEntities, MaxSplitDocs)
    \/ RunQuery(SplitQueries)
    \/ CursorNext

SpecSplit == InitQuery /\ [][NextSplit]_vars

\* C26: for a query with a projection and filters every pull returns an
\* entity or ends the sequence: the cursor raises no other error, also when
\* no single element of the projected repeated property of a document
\* satisfies every filter, or an equality filter is on that property
C26_PullReturnsOrStops ==
    (cur # None /\ Len(cur.query.props) > 0 /\ Len(cur.query.filters) > 0)
        => Errors = <<>>

----------------------------------------------------------------------------
(* The translation of a query, step by step: _get_filters, then            *)
(* _ancestor_query and _ordering on the dict _get_filters made.            *)

MaxTranslateFilters == 2

TranslateFilters ==
    {FilterOn(KeyProp, "GREATER_THAN", VKey(QKey(<<1>>))),
     FilterOn(<<"a">>, "EQUAL", VDate(1, 0)),
     FilterOn(<<"a">>, "EQUAL", VInt(1)),
     FilterOn(<<"a">>, "LESS_THAN", VInt(3))}

TranslateOrders ==
    {<<>>, <<OrderBy(<<"a">>, ASCENDING)>>, <<OrderBy(KeyProp, ASCENDING)>>}

TranslateQueries ==
    LET lists == UNION {[1..n -> TranslateFilters] : n \in 0..MaxTranslateFilters}
        plain == {Query(QKind, f, o) : f \in lists, o \in TranslateOrders}
    IN  plain \cup {WithAncestor(q, QKey(<<1>>)) : q \in plain}

InitTranslate ==
    /\ IdleStore
    /\ inp \in TranslateQueries
    /\ outp = None
    /\ pc = "start"

\* __init__ up to the find: the dict after _get_filters, and the dict after
\* _ancestor_query and _ordering
Translate ==
    /\ pc = "start"
    /\ outp' = [before |-> GetFilters(inp.filters), after |-> QueryFilters(inp)]
    /\ pc' = "done"
    /\ UNCHANGED <<storeVars, cur, inp>>

NextTranslate == Translate

SpecTranslate == InitTranslate /\ [][NextTranslate]_vars

\* the constraints of a storage filter, as [prop, spec] pairs
Constraints(F) ==
    {[prop |-> p, spec |-> F.top[p]] : p \in DOMAIN F.top}
        \cup {F.and[j] : j \in 1..Len(F.and)}

\* the storage filter constrains prop by spec, next to "$exists" or not
InForce(F, prop, spec) ==
    \/ HasConstraint(F, prop, spec)
    \/ spec.kind = "op" /\ HasConstraint(F, prop, [spec EXCEPT !.exists = TRUE])

\* C27: every constraint _get_filters produced is a constraint of the storage
\* filter after _ancestor_query and _ordering, with its property, operator
\* and value: the two steps only add constraints
C27_StepsOnlyAdd ==
    pc = "done" =>
        \A c \in Constraints(outp.before) : InForce(outp.after, c.prop, c.spec)

----------------------------------------------------------------------------
(* Queries with a limit, with and without a projection on a repeated       *)
(* property.                                                               *)

MaxLimitDocs == 2
MaxLimit == 2

LimitEntities ==
    {Entity(QKey(<<1>>), [n \in {<<"a">>} |-> ListOf(<<VInt(1), VInt(2), VInt(3)>>)]),
     Entity(QKey(<<2>>), [n \in {<<"a">>} |-> VInt(1)]),
     Entity(QKey(<<3>>), [n \in {<<"a">>} |-> VInt(2)])}

LimitQueries ==
    {WithLimit(q, l) :
        q \in {Query(QKind, <<>>, <<>>),
               WithProjection(Query(QKind, <<>>, <<>>), <<<<"a">>>>)},
        l \in 0..MaxLimit}

NextLimit ==
    \/ PutNew(LimitEntities, MaxLimitDocs)
    \/ RunQuery(LimitQueries)
    \/ CursorNext

SpecLimit == InitQuery /\ [][NextLimit]_vars

\* C28: a cursor of a query with limit L has returned at most L entities
\* that are not placeholders, for L = 0 too and also when the projection
\* splits documents into several partial entities
C28_LimitBounds ==
    (cur # None /\ cur.query.hasLimit) => Len(Returned) <= cur.query.limit

----------------------------------------------------------------------------
(* DatastoreMongoDBStub: the dict __entities_by_group next to the storage. *)
(*                                                                         *)
(* inp is __entities_by_group, a collections.defaultdict(dict): from the   *)
(* key of the root of an entity group to the dict from key to entity of    *)
(* the group.  A new stub on the same storage starts with the dict empty.  *)

MaxGroupDocs == 2

GroupKeys ==
    {<<IdElem(<<"A">>, 1)>>,
     <<IdElem(<<"A">>, 1), IdElem(<<"B">>, 2)>>,
     <<IdElem(<<"B">>, 2)>>}

GroupEntities == {Entity(k, [n \in {<<"a">>} |-> VInt(1)]) : k \in GroupKeys}

\* _GetEntityGroup: the reference of the first path element
GetEntityGroup(key) == SubSeq(key, 1, 1)

\* d[k] of a defaultdict(dict): the value, made empty when k is missing
DefaultGet(d, k) == IF k \in DOMAIN d THEN d[k] ELSE <<>>

InitGroup ==
    /\ IdleStore
    /\ inp = <<>>
    /\ outp = None
    /\ pc = "idle"

\* _Put
StubPut ==
    \E e \in GroupEntities :
        /\ Cardinality(DOMAIN lastPut \cup {e.key}) <= MaxGroupDocs
        /\ inp' = DictSet(inp, GetEntityGroup(e.key),
                          DictSet(DefaultGet(inp, GetEntityGroup(e.key)),
                                  e.key, e.props))
        /\ LET st == PutAll([db |-> db,
                             sch |-> [coll |-> schemaColl, local |-> localSchema,
                                      saves |-> 0],
                             err |-> "none",
                             keys |-> <<>>], <<e>>)
           IN  /\ db' = st.db
               /\ schemaColl' = st.sch.coll
               /\ localSchema' = st.sch.local
               /\ lastPut' = Record(lastPut, Stored(<<e>>, Len(st.keys)))
               /\ ret' = [op |-> "put", err |-> st.err, arg |-> <<>>,
                          val |-> [keys |-> st.keys]]
        /\ UNCHANGED <<cur, outp, pc>>

\* _Delete: the lookup of the group makes its entry; a key that is not in it
\* raises KeyError, which is passed over
StubDelete ==
    \E key \in GroupKeys :
        LET eg_k == GetEntityGroup(key)
            r == DeleteResult(db, key)
        IN  /\ inp' = IF key \in DOMAIN DefaultGet(inp, eg_k)
                      THEN IF DOMAIN inp[eg_k] = {key}
                           THEN DictDel(inp, eg_k)
                           ELSE DictSet(inp, eg_k, DictDel(inp[eg_k], key))
                      ELSE DictSet(inp, eg_k, DefaultGet(inp, eg_k))
            /\ db' = r.db
            /\ lastPut' = DictDel(lastPut, key)
            /\ ret' = [op |-> "delete", err |-> r.err, arg |-> key, val |-> None]
            /\ UNCHANGED <<schemaColl, localSchema, cur, outp, pc>>

\* _GetEntitiesInEntityGroup: the lookup in the defaultdict never raises
\* KeyError, so the copy of the entry, made on the spot when missing, is
\* returned and the query below is never run
GetEntitiesInEntityGroup ==
    \E entity_group \in {GetEntityGroup(k) : k \in GroupKeys} :
        /\ inp' = DictSet(inp, entity_group, DefaultGet(inp, entity_group))
        /\ ret' = [op |-> "_GetEntitiesInEntityGroup", err |-> "none",
                   arg |-> entity_group, val |-> DefaultGet(inp, entity_group)]
        /\ UNCHANGED <<db, lastPut, schemaColl, localSchema, cur, outp, pc>>

\* a new stub on the storage: __init__
NewStub ==
    /\ inp' = <<>>
    /\ localSchema' = Load(schemaColl)
    /\ ret' = [op |-> "__init__", err |-> "none", arg |-> <<>>, val |-> None]
    /\ UNCHANGED <<db, lastPut, schemaColl, cur, outp, pc>>

NextGroup == StubPut \/ StubDelete \/ GetEntitiesInEntityGroup \/ NewStub

SpecGroup == InitGroup /\ [][NextGroup]_vars

\* the keys of the documents of the storage that belong to the entity group
InGroup(docs, entity_group) ==
    {ToDatastoreKey(KeyFromMongo(d._id)) :
        d \in {x \in Documents(docs) :
                  x._id[1] = ToMongoKey(KeyFromPb(entity_group))[1]}}

\* C29: for an entity group without an entry in __entities_by_group,
\* _GetEntitiesInEntityGroup returns the entities of the group that are in
\* the storage, and leaves __entities_by_group as it was
C29_GroupFallsBack ==
    [][(ret'.op = "_GetEntitiesInEntityGroup" /\ ret'.arg \notin DOMAIN inp) =>
           /\ DOMAIN ret'.val = InGroup(db, ret'.arg)
           /\ inp' = inp
      ]_vars

----------------------------------------------------------------------------
(* One instance under put, load and clear.                                 *)

\* a call of schema.load
LoadSchema ==
    /\ cur = None
    /\ localSchema' = Load(schemaColl)
    /\ ret' = [op |-> "load", err |-> "none", arg |-> <<>>, val |-> None]
    /\ UNCHANGED <<db, lastPut, schemaColl, cur, inp, outp, pc>>

NextCoherent == SchemaPut \/ LoadSchema \/ Clear

SpecCoherent == InitQuery /\ [][NextCoherent]_vars

\* C30: under put, load and clear on one instance the cache holds a record
\* for exactly the collections the storage holds one for, and the same
\* record; and after a put that ran to its end, one that follows a clear
\* included, the storage holds the schema record of the entity put
C30_CacheCoherent ==
    /\ DOMAIN localSchema = DOMAIN schemaColl
    /\ \A c \in DOMAIN localSchema \cap DOMAIN schemaColl :
           localSchema[c] = schemaColl[c]
    /\ (Called("put") /\ ret.err = "none")
           => Holds(schemaColl, SchemaOf(LastStored))

====
